---- MODULE Spec2Model ----
(* A model of the user CRUD pipeline of gin-crud-starter: the controller       *)
(* (internal/controller/v1), the service (internal/service), the repository     *)
(* (internal/repository) on top of GORM/PostgreSQL, and the error taxonomy      *)
(* (pkg/errors).  Every request runs on its own worker; the only shared state   *)
(* is the users table.  One action is one database statement together with the  *)
(* code that runs before the next statement of the same request.                *)
EXTENDS Integers, Sequences, FiniteSets, TLC

VARIABLES
    db,     \* the users table and its id sequence: [users, seq]
    now,    \* the wall clock, in ticks
    proc,   \* per worker: the request in flight and its local variables
    last,   \* the exchange completed last: [w, req, resp]
    nreq,   \* requests started so far
    pair,   \* SpecPair: two copies of the system fed requests that differ in the password
    errv,   \* SpecErr: an error value and what the taxonomy makes of it
    call,   \* SpecLive: one service call under its time budget
    mw,     \* SpecPanic: one request passing through the middleware chain
    items,  \* SpecItems: the items table and the exchange completed last
    lg,     \* SpecLog: one request seen by the request logger, and the log
    srv     \* SpecStop: the life of the server process

vars == <<db, now, proc, last, nreq, pair, errv, call, mw, items, lg, srv>>

-----------------------------------------------------------------------------
(* Bounds of the model *)

MaxReq == 3          \* requests started in one behaviour of Spec
MaxClock == 1        \* the clock runs over 1..MaxClock (0 is the zero time)
MaxPairReq == 2      \* request pairs served in one behaviour of SpecPair

Workers == {"w1", "w2"}

-----------------------------------------------------------------------------
(* Go values: nil and pointers *)

Nil == <<>>
Ptr(v) == <<v>>
Deref(p) == p[1]

-----------------------------------------------------------------------------
(* pkg/errors *)

StatusOK == 200
StatusCreated == 201
StatusNoContent == 204
StatusBadRequest == 400
StatusUnauthorized == 401
StatusForbidden == 403
StatusNotFound == 404
StatusConflict == 409
StatusInternalServerError == 500

ErrCodeInvalidInput == "INVALID_INPUT"
ErrCodeResourceNotFound == "RESOURCE_NOT_FOUND"
ErrCodeDuplicateResource == "DUPLICATE_RESOURCE"
ErrCodeDatabase == "DATABASE_ERROR"
ErrCodeInternal == "INTERNAL_ERROR"
ErrCodeUnauthorized == "UNAUTHORIZED"
ErrCodeForbidden == "FORBIDDEN"

\* An error that is not an *AppError (errors.New, a driver error), wrapping cause.
PlainError(msg, cause) == [typed |-> FALSE, Message |-> msg, Err |-> cause]

New(statusCode, code, message, details, err) ==
    [typed |-> TRUE, StatusCode |-> statusCode, Code |-> code,
     Message |-> message, Details |-> details, Err |-> err]

NewInvalidInputError(message, details, err) ==
    New(StatusBadRequest, ErrCodeInvalidInput, message, details, err)

NewResourceNotFoundError(message, details, err) ==
    New(StatusNotFound, ErrCodeResourceNotFound, message, details, err)

\* (variant) a DuplicateResource error carrying status 400
NewDuplicateResourceError_BadRequest(message, details, err) ==
    New(StatusBadRequest, ErrCodeDuplicateResource, message, details, err)

NewDuplicateResourceError(message, details, err) ==
    New(StatusConflict, ErrCodeDuplicateResource, message, details, err)

\* (variant) a Database error that carries its cause in the details
NewDatabaseError_WithCause(message, err) ==
    New(StatusInternalServerError, ErrCodeDatabase, message,
        Ptr([cause |-> Deref(err).Message]), err)

NewDatabaseError(message, err) ==
    New(StatusInternalServerError, ErrCodeDatabase, message, Nil, err)

NewInternalError(message, err) ==
    New(StatusInternalServerError, ErrCodeInternal, message, Nil, err)

NewUnauthorizedError(message, err) ==
    New(StatusUnauthorized, ErrCodeUnauthorized, message, Nil, err)

NewForbiddenError(message, err) ==
    New(StatusForbidden, ErrCodeForbidden, message, Nil, err)

\* errors.As(err, &appErr): the first *AppError on err's Unwrap chain, or Nil.
RECURSIVE AsAppError(_)
AsAppError(err) ==
    IF err = Nil THEN Nil
    ELSE IF Deref(err).typed THEN err
    ELSE AsAppError(Deref(err).Err)

IsNotFound(err) ==
    LET appErr == AsAppError(err)
    IN  IF appErr # Nil THEN Deref(appErr).StatusCode = StatusNotFound ELSE FALSE

GetStatusCode(err) ==
    LET appErr == AsAppError(err)
    IN  IF appErr # Nil THEN Deref(appErr).StatusCode ELSE StatusInternalServerError

\* encoding/json of an AppError: StatusCode and Err are tagged json:"-",
\* Details is omitted when nil.
AppErrorJSON(e) ==
    IF e.Details = Nil
    THEN [code |-> e.Code, message |-> e.Message]
    ELSE [code |-> e.Code, message |-> e.Message, details |-> Deref(e.Details)]

-----------------------------------------------------------------------------
(* The entity and its wire shapes (internal/model) *)

\* The zero value of model.User; CreatedAt = 0 is the zero time.
ZeroUser ==
    [ID |-> 0, Name |-> "", Email |-> "", Password |-> "", Role |-> "",
     Active |-> FALSE, CreatedAt |-> 0, UpdatedAt |-> 0, DeletedAt |-> Nil]

\* (variant) a response that copies the stored password
ToResponse_WithPassword(u) ==
    [id |-> u.ID, name |-> u.Name, email |-> u.Email, password |-> u.Password,
     role |-> u.Role, active |-> u.Active,
     created_at |-> u.CreatedAt, updated_at |-> u.UpdatedAt]

\* User.ToResponse: Password and DeletedAt are not copied.
ToResponse(u) ==
    [id |-> u.ID, name |-> u.Name, email |-> u.Email, role |-> u.Role,
     active |-> u.Active, created_at |-> u.CreatedAt, updated_at |-> u.UpdatedAt]

-----------------------------------------------------------------------------
(* Request inputs *)

ValidEmails == {"a@x.com", "b@x.com"}
RoleNames == {"admin", "user"}
\* A JSON request body: it does not parse (malformed), or it is an object in
\* which each known key is absent (Nil) or present with a value.
JSONBody(name, email, password, role, active) ==
    [malformed |-> FALSE, name |-> name, email |-> email,
     password |-> password, role |-> role, active |-> active]

MalformedBody ==
    [malformed |-> TRUE, name |-> Nil, email |-> Nil,
     password |-> Nil, role |-> Nil, active |-> Nil]

NoBody == JSONBody(Nil, Nil, Nil, Nil, Nil)

CreateBodies ==
    { MalformedBody,
      JSONBody(Ptr("Ann"), Ptr("a@x.com"), Ptr("secret1"), Nil, Nil),
      JSONBody(Ptr("Ann"), Ptr("b@x.com"), Ptr("secret1"), Ptr("admin"), Nil),
      JSONBody(Ptr("Ann"), Ptr("a@x.com"), Ptr("secret1"), Ptr(""), Nil),
      JSONBody(Nil, Ptr("a@x.com"), Ptr("secret1"), Nil, Nil),
      JSONBody(Ptr("Ann"), Ptr("nope"), Ptr("secret1"), Nil, Nil),
      JSONBody(Ptr("Ann"), Ptr("a@x.com"), Ptr("abc"), Nil, Nil),
      JSONBody(Ptr("Ann"), Ptr("a@x.com"), Nil, Nil, Nil),
      JSONBody(Ptr("Ann"), Ptr("a@x.com"), Ptr("secret1"), Ptr("root"), Nil) }

NameOnly == JSONBody(Ptr("Bob"), Nil, Nil, Nil, Nil)

\* Update bodies that pass validation, and ones that do not
GoodUpdateBodies ==
    {NoBody, NameOnly}
    \cup { JSONBody(Ptr(""), Nil, Nil, Nil, Nil),
           JSONBody(Nil, Ptr("b@x.com"), Nil, Nil, Nil),
           JSONBody(Nil, Nil, Ptr("hunter22"), Nil, Nil),
           JSONBody(Nil, Nil, Nil, Ptr("admin"), Nil),
           JSONBody(Nil, Nil, Nil, Nil, Ptr(FALSE)) }

BadUpdateBodies ==
    {MalformedBody}
    \cup { JSONBody(Nil, Ptr(e), Nil, Nil, Nil) : e \in {"nope", ""} }
    \cup { JSONBody(Nil, Nil, Ptr("abc"), Nil, Nil) }
    \cup { JSONBody(Nil, Nil, Nil, Ptr(r), Nil) : r \in {"root", ""} }

UpdateBodies == GoodUpdateBodies \cup BadUpdateBodies

\* The :id path parameter, as the characters of the URL segment.
GoodIDParams == { <<"1">>, <<"0", "2">> }
BadIDParams == { <<"x">>, <<"4", "2", "9", "4", "9", "6", "7", "2", "9", "6">> }
IDParams == GoodIDParams \cup BadIDParams

Requests ==
    { [op |-> "GetAllUsers", id |-> <<>>, body |-> NoBody] }
    \cup { [op |-> "GetUserByID", id |-> i, body |-> NoBody] : i \in IDParams }
    \cup { [op |-> "CreateUser", id |-> <<>>, body |-> b] : b \in CreateBodies }
    \cup { [op |-> "UpdateUser", id |-> <<"1">>, body |-> b] : b \in UpdateBodies }
    \cup { [op |-> "UpdateUser", id |-> <<"0", "2">>, body |-> b] :
               b \in {NameOnly, JSONBody(Nil, Ptr("a@x.com"), Nil, Nil, Nil)} }
    \cup { [op |-> "UpdateUser", id |-> <<"x">>, body |-> NameOnly] }
    \cup { [op |-> "DeleteUser", id |-> i, body |-> NoBody] : i \in GoodIDParams \cup {<<"x">>} }

NoReq == [op |-> "none", id |-> <<>>, body |-> NoBody]

-----------------------------------------------------------------------------
(* Binding and validation (gin ShouldBindJSON with the binding tags) *)

\* binding:"required": the field is not its zero value.
Required(s) == s # ""
\* binding:"email"
IsEmail(s) == s \in ValidEmails
\* binding:"min=6" on a string
MinLen6(s) == Len(s) >= 6
\* binding:"oneof=admin user"
OneOfRole(s) == s \in RoleNames

\* A key absent from the JSON object leaves the Go field at its zero value.
StrOrZero(p) == IF p = Nil THEN "" ELSE Deref(p)

\* model.UserCreate decoded from the body
DecodeUserCreate(body) ==
    [Name |-> StrOrZero(body.name), Email |-> StrOrZero(body.email),
     Password |-> StrOrZero(body.password), Role |-> StrOrZero(body.role)]

\* (variant) UserCreate without min=6 on the password
ValidUserCreate_NoMinLen(in) ==
    /\ Required(in.Name)
    /\ Required(in.Email) /\ IsEmail(in.Email)
    /\ Required(in.Password)
    /\ (in.Role = "" \/ OneOfRole(in.Role))

\* name: required; email: required,email; password: required,min=6;
\* role: omitempty,oneof=admin user
ValidUserCreate(in) ==
    /\ Required(in.Name)
    /\ Required(in.Email) /\ IsEmail(in.Email)
    /\ Required(in.Password) /\ MinLen6(in.Password)
    /\ (in.Role = "" \/ OneOfRole(in.Role))

\* model.UserUpdate decoded from the body: every field is a pointer
DecodeUserUpdate(body) ==
    [Name |-> body.name, Email |-> body.email, Password |-> body.password,
     Role |-> body.role, Active |-> body.active]

\* omitempty on a pointer field skips the remaining tags only when the pointer
\* is nil: a pointer that is set is validated, also when it points at "".
ValidUserUpdate(in) ==
    /\ (in.Email = Nil \/ IsEmail(Deref(in.Email)))
    /\ (in.Password = Nil \/ MinLen6(Deref(in.Password)))
    /\ (in.Role = Nil \/ OneOfRole(Deref(in.Role)))

\* ctx.ShouldBindJSON(&input) for UserCreate: TRUE when it returns an error
BindCreateFails(body) ==
    body.malformed \/ ~ValidUserCreate(DecodeUserCreate(body))

\* ctx.ShouldBindJSON(&input) for UserUpdate: TRUE when it returns an error
BindUpdateFails(body) ==
    body.malformed \/ ~ValidUserUpdate(DecodeUserUpdate(body))

\* strconv.ParseUint(s, 10, 32)
DigitChars == <<"0", "1", "2", "3", "4", "5", "6", "7", "8", "9">>
IsDigit(c) == \E i \in 1..10 : DigitChars[i] = c
DigitVal(c) == (CHOOSE i \in 1..10 : DigitChars[i] = c) - 1

RECURSIVE DecimalValue(_)
DecimalValue(s) ==
    IF s = <<>> THEN 0
    ELSE 10 * DecimalValue(SubSeq(s, 1, Len(s) - 1)) + DigitVal(s[Len(s)])

\* The digits of 1<<32 - 1, the largest value of bitSize 32.
MaxUint32Digits == <<"4", "2", "9", "4", "9", "6", "7", "2", "9", "5">>

RECURSIVE StripZeros(_)
StripZeros(s) ==
    IF Len(s) > 1 /\ s[1] = "0" THEN StripZeros(Tail(s)) ELSE s

\* s and m are digit strings without leading zeros: s > m as numbers
DigitsGreater(s, m) ==
    \/ Len(s) > Len(m)
    \/ /\ Len(s) = Len(m)
       /\ \E i \in 1..Len(s) :
              /\ DigitVal(s[i]) > DigitVal(m[i])
              /\ \A j \in 1..(i - 1) : s[j] = m[j]

\* syntax error (empty, or a character that is no digit), or out of range
ParseUintFails(s) ==
    \/ s = <<>>
    \/ \E i \in 1..Len(s) : ~IsDigit(s[i])
    \/ DigitsGreater(StripZeros(s), MaxUint32Digits)

\* parseIDParam: [err, id]
parseIDParam(idParam) ==
    IF ParseUintFails(idParam)
    THEN [err |-> TRUE, id |-> 0]
    ELSE [err |-> FALSE, id |-> DecimalValue(idParam)]

-----------------------------------------------------------------------------
(* bcrypt.GenerateFromPassword: a salted one-way hash, as a string *)

Salts == {"s1"}

Hash(password, salt) == "$2a$10$" \o salt \o "$" \o password

-----------------------------------------------------------------------------
(* The users table behind GORM.  d = [users, seq]: the rows (soft-deleted ones  *)
(* included) and the next value of the id sequence.  Every statement can fail   *)
(* in the driver (connection lost, context cancelled): fail = TRUE.  A result   *)
(* is [db, Error, RowsAffected, user] as in *gorm.DB after the call.            *)

DriverError == Ptr(PlainError("driver error", Nil))
ErrRecordNotFound == Ptr(PlainError("record not found", Nil))
UniqueViolation == Ptr(PlainError("duplicate key value violates unique constraint", Nil))

Result(d, error, rowsAffected, user) ==
    [db |-> d, Error |-> error, RowsAffected |-> rowsAffected, user |-> user]

\* gorm.DeletedAt: a query, update or delete only sees rows with deleted_at IS NULL
Live(d) == { r \in d.users : r.DeletedAt = Nil }

MinID(rows) == CHOOSE r \in rows : \A q \in rows : r.ID <= q.ID

RECURSIVE SortByID(_)
SortByID(rows) ==
    IF rows = {} THEN <<>>
    ELSE <<MinID(rows)>> \o SortByID(rows \ {MinID(rows)})

\* (variant) a users table without the unique index on email
EmailTaken_NoIndex(d, email, id) == FALSE

\* gorm:"uniqueIndex" on Email: the index covers every row of the table, the
\* soft-deleted ones too; id is the row being written.
EmailTaken(d, email, id) ==
    \E r \in d.users : r.Email = email /\ r.ID # id

\* db.Find(&users)
GormFind(d, fail) ==
    IF fail THEN [Error |-> DriverError, users |-> <<>>]
    ELSE [Error |-> Nil, users |-> SortByID(Live(d))]

\* db.First(&user, id)
GormFirstByID(d, id, fail) ==
    IF fail THEN Result(d, DriverError, 0, ZeroUser)
    ELSE LET m == { r \in Live(d) : r.ID = id }
         IN  IF m = {} THEN Result(d, ErrRecordNotFound, 0, ZeroUser)
             ELSE Result(d, Nil, 1, MinID(m))

\* db.Where("email = ?", email).First(&user)
GormFirstByEmail(d, email, fail) ==
    IF fail THEN Result(d, DriverError, 0, ZeroUser)
    ELSE LET m == { r \in Live(d) : r.Email = email }
         IN  IF m = {} THEN Result(d, ErrRecordNotFound, 0, ZeroUser)
             ELSE Result(d, Nil, 1, MinID(m))

\* A time.Time is a count of nanoseconds: GoTime(us, ns) is ns nanoseconds
\* past the microsecond us.  The zero time is 0.
GoTime(us, ns) == us * 1000 + ns
Micros(t) == t \div 1000

\* A timestamptz column keeps microseconds.
PgTimestamp(t) == GoTime(Micros(t), 0)

\* The row the table holds for the values of a Go struct
PgRow(u) ==
    [u EXCEPT !.CreatedAt = PgTimestamp(u.CreatedAt),
              !.UpdatedAt = PgTimestamp(u.UpdatedAt)]

\* The values GORM inserts: a zero field with a literal default tag
\* (role default:'user', active default:true) takes the default, zero
\* timestamps take the current time.
WithDefaults(u, t) ==
    [u EXCEPT !.Role = IF u.Role = "" THEN "user" ELSE u.Role,
              !.Active = IF u.Active = FALSE THEN TRUE ELSE u.Active,
              !.CreatedAt = IF u.CreatedAt = 0 THEN t ELSE u.CreatedAt,
              !.UpdatedAt = IF u.UpdatedAt = 0 THEN t ELSE u.UpdatedAt]

\* db.Create(&user) with a zero ID: INSERT; the sequence value is consumed
\* whether or not the row is accepted.
GormCreate(d, user, t, fail) ==
    IF fail THEN Result(d, DriverError, 0, user)
    ELSE LET row == [WithDefaults(user, t) EXCEPT !.ID = d.seq]
             d1  == [d EXCEPT !.seq = d.seq + 1]
         IN  IF EmailTaken(d, row.Email, row.ID)
             THEN Result(d1, UniqueViolation, 0, user)
             ELSE Result([d1 EXCEPT !.users = d.users \cup {PgRow(row)}], Nil, 1, row)

\* INSERT ... ON CONFLICT (id) DO UPDATE SET every column but id and created_at
GormUpsert(d, user, t) ==
    LET vals == [WithDefaults(user, t) EXCEPT !.UpdatedAt = t]
        old  == { r \in d.users : r.ID = user.ID }
        row  == IF old = {} THEN vals
                ELSE [vals EXCEPT !.CreatedAt = MinID(old).CreatedAt]
    IN  IF EmailTaken(d, row.Email, row.ID)
        THEN Result(d, UniqueViolation, 0, user)
        ELSE Result([d EXCEPT !.users = (d.users \ old) \cup {PgRow(row)}], Nil, 1, vals)

\* db.Save(&user): with a zero ID an INSERT; otherwise UPDATE ... SET every
\* column WHERE id = ? AND deleted_at IS NULL, and when that matches no row,
\* the upsert.
GormSave(d, user, t, fail) ==
    IF fail THEN Result(d, DriverError, 0, user)
    ELSE IF user.ID = 0 THEN GormCreate(d, user, t, fail)
    ELSE LET old == { r \in Live(d) : r.ID = user.ID }
             row == [user EXCEPT !.UpdatedAt = t]
         IN  IF old = {} THEN GormUpsert(d, user, t)
             ELSE IF EmailTaken(d, row.Email, row.ID)
             THEN Result(d, UniqueViolation, 0, user)
             ELSE Result([d EXCEPT !.users = (d.users \ old) \cup {PgRow(row)}], Nil, 1, row)

\* db.Delete(&model.User{}, id): UPDATE users SET deleted_at = now
\* WHERE id = ? AND deleted_at IS NULL
GormDelete(d, id, t, fail) ==
    IF fail THEN Result(d, DriverError, 0, ZeroUser)
    ELSE LET old == { r \in Live(d) : r.ID = id }
         IN  IF old = {} THEN Result(d, Nil, 0, ZeroUser)
             ELSE Result([d EXCEPT !.users =
                              (d.users \ old) \cup { [r EXCEPT !.DeletedAt = Ptr(PgTimestamp(t))] : r \in old }],
                         Nil, 1, ZeroUser)

-----------------------------------------------------------------------------
(* internal/repository: each function returns [db, err, user] *)

Ret(d, err, user) == [db |-> d, err |-> err, user |-> user]

\* (variant) FindByID without the gorm.ErrRecordNotFound case
FindByID_NotFoundAsDatabase(d, id, fail) ==
    LET result == GormFirstByID(d, id, fail)
    IN  IF result.Error # Nil
        THEN Ret(d, Ptr(NewDatabaseError("Failed to retrieve user", result.Error)), ZeroUser)
        ELSE Ret(d, Nil, result.user)

FindByID(d, id, fail) ==
    LET result == GormFirstByID(d, id, fail)
    IN  IF result.Error # Nil
        THEN IF result.Error = ErrRecordNotFound
             THEN Ret(d, Ptr(NewResourceNotFoundError("User not found",
                                 Ptr([id |-> id]), result.Error)), ZeroUser)
             ELSE Ret(d, Ptr(NewDatabaseError("Failed to retrieve user", result.Error)), ZeroUser)
        ELSE Ret(d, Nil, result.user)

FindByEmail(d, email, fail) ==
    LET result == GormFirstByEmail(d, email, fail)
    IN  IF result.Error # Nil
        THEN IF result.Error = ErrRecordNotFound
             THEN Ret(d, Ptr(NewResourceNotFoundError("User not found",
                                 Ptr([email |-> email]), result.Error)), ZeroUser)
             ELSE Ret(d, Ptr(NewDatabaseError("Failed to retrieve user by email",
                                 result.Error)), ZeroUser)
        ELSE Ret(d, Nil, result.user)

FindAll(d, fail) ==
    LET result == GormFind(d, fail)
    IN  IF result.Error # Nil
        THEN [err |-> Ptr(NewDatabaseError("Failed to retrieve users", result.Error)),
              users |-> <<>>]
        ELSE [err |-> Nil, users |-> result.users]

\* Create, first half: the FindByEmail lookup.  found = TRUE is the
\* DuplicateResource return; otherwise the insert follows.
\* (variant) Create without the DuplicateResource return
CreateCheck_NoCheck(d, user, fail) ==
    [found |-> FALSE, err |-> FindByEmail(d, user.Email, fail).err]

CreateCheck(d, user, fail) ==
    LET look == FindByEmail(d, user.Email, fail)
    IN  [found |-> look.err = Nil, err |-> look.err]

DuplicateEmail(user) ==
    Ptr(NewDuplicateResourceError("User with this email already exists",
                                  Ptr([email |-> user.Email]), Nil))

\* Create, second half: the insert
CreateInsert(d, user, t, fail) ==
    LET result == GormCreate(d, user, t, fail)
    IN  IF result.Error # Nil
        THEN Ret(result.db, Ptr(NewDatabaseError("Failed to create user", result.Error)), user)
        ELSE Ret(result.db, Nil, result.user)

Update(d, user, t, fail) ==
    LET result == GormSave(d, user, t, fail)
    IN  IF result.Error # Nil
        THEN Ret(result.db, Ptr(NewDatabaseError("Failed to update user", result.Error)), user)
        ELSE IF result.RowsAffected = 0
        THEN Ret(result.db, Ptr(NewResourceNotFoundError("User not found",
                                    Ptr([id |-> user.ID]), Nil)), user)
        ELSE Ret(result.db, Nil, result.user)

\* (variant) Delete without the RowsAffected test
Delete_NoRowsCheck(d, id, t, fail) ==
    LET result == GormDelete(d, id, t, fail)
    IN  IF result.Error # Nil
        THEN Ret(result.db, Ptr(NewDatabaseError("Failed to delete user", result.Error)), ZeroUser)
        ELSE Ret(result.db, Nil, ZeroUser)

Delete(d, id, t, fail) ==
    LET result == GormDelete(d, id, t, fail)
    IN  IF result.Error # Nil
        THEN Ret(result.db, Ptr(NewDatabaseError("Failed to delete user", result.Error)), ZeroUser)
        ELSE IF result.RowsAffected = 0
        THEN Ret(result.db, Ptr(NewResourceNotFoundError("User not found",
                                    Ptr([id |-> id]), Nil)), ZeroUser)
        ELSE Ret(result.db, Nil, ZeroUser)

-----------------------------------------------------------------------------
(* internal/service: the code of a use case between two repository calls *)

HashError == PlainError("bcrypt: cannot hash", Nil)

\* (variant) CreateUser storing the password as supplied
NewUser_PlainPassword(input, salt) ==
    LET user == [ZeroUser EXCEPT !.Name = input.Name, !.Email = input.Email,
                                 !.Password = input.Password,
                                 !.Role = input.Role, !.Active = TRUE]
    IN  IF user.Role = "" THEN [user EXCEPT !.Role = "user"] ELSE user

\* (variant) CreateUser defaulting the role to admin
NewUser_AdminDefault(input, salt) ==
    LET user == [ZeroUser EXCEPT !.Name = input.Name, !.Email = input.Email,
                                 !.Password = Hash(input.Password, salt),
                                 !.Role = input.Role, !.Active = TRUE]
    IN  IF user.Role = "" THEN [user EXCEPT !.Role = "admin"] ELSE user

\* CreateUser up to userRepo.Create: the entity built from the input
NewUser(input, salt) ==
    LET user == [ZeroUser EXCEPT !.Name = input.Name, !.Email = input.Email,
                                 !.Password = Hash(input.Password, salt),
                                 !.Role = input.Role, !.Active = TRUE]
    IN  IF user.Role = "" THEN [user EXCEPT !.Role = "user"] ELSE user

\* (variant) a merge that also clears the identifier
ApplyUpdate_ResetID(user, input, salt) ==
    [user EXCEPT
        !.ID = 0,
        !.Name = IF input.Name # Nil THEN Deref(input.Name) ELSE @,
        !.Email = IF input.Email # Nil THEN Deref(input.Email) ELSE @,
        !.Password = IF input.Password # Nil THEN Hash(Deref(input.Password), salt) ELSE @,
        !.Role = IF input.Role # Nil THEN Deref(input.Role) ELSE @,
        !.Active = IF input.Active # Nil THEN Deref(input.Active) ELSE @]

\* UpdateUser between FindByID and userRepo.Update: the fields the input sets
ApplyUpdate(user, input, salt) ==
    [user EXCEPT
        !.Name = IF input.Name # Nil THEN Deref(input.Name) ELSE @,
        !.Email = IF input.Email # Nil THEN Deref(input.Email) ELSE @,
        !.Password = IF input.Password # Nil THEN Hash(Deref(input.Password), salt) ELSE @,
        !.Role = IF input.Role # Nil THEN Deref(input.Role) ELSE @,
        !.Active = IF input.Active # Nil THEN Deref(input.Active) ELSE @]

-----------------------------------------------------------------------------
(* internal/controller/v1: responses *)

Response(status, body) == [status |-> status, body |-> body]
NoResp == Response(0, [none |-> TRUE])
EmptyBody == [empty |-> TRUE]

\* (variant) handleError putting the error's own message in the 500 body
handleError_LeakCause(err) ==
    LET appErr == AsAppError(err)
    IN  IF appErr # Nil
        THEN Response(Deref(appErr).StatusCode, AppErrorJSON(Deref(appErr)))
        ELSE Response(StatusInternalServerError,
                      AppErrorJSON(NewInternalError(Deref(err).Message, err)))

handleError(err) ==
    LET appErr == AsAppError(err)
    IN  IF appErr # Nil
        THEN Response(Deref(appErr).StatusCode, AppErrorJSON(Deref(appErr)))
        ELSE Response(StatusInternalServerError,
                      AppErrorJSON(NewInternalError("An unexpected error occurred", err)))

InvalidID ==
    Response(StatusBadRequest,
             AppErrorJSON(NewInvalidInputError("Invalid ID format", Nil, Ptr(PlainError("strconv", Nil)))))

InvalidInput ==
    Response(StatusBadRequest,
             AppErrorJSON(NewInvalidInputError("Invalid input", Nil, Ptr(PlainError("binding", Nil)))))

\* ctx.JSON(200, users): a nil slice is encoded as null
UsersBody(users) ==
    IF users = <<>> THEN [null |-> TRUE]
    ELSE [users |-> [i \in 1..Len(users) |-> ToResponse(users[i])]]

-----------------------------------------------------------------------------
(* A worker: the request it serves, where it stands, and the handler's locals:  *)
(* id (the parsed path parameter), user (the entity the service holds), loaded  *)
(* (the record as FindByID returned it), err (the last repository error);      *)
(* fault records that a statement of this request failed in the driver.         *)

Idle ==
    [pc |-> "idle", req |-> NoReq, id |-> 0, user |-> ZeroUser,
     loaded |-> ZeroUser, err |-> Nil, resp |-> NoResp, fault |-> FALSE]

\* The handler has written its response and returned.
Reply(req, resp) == [Idle EXCEPT !.pc = "done", !.req = req, !.resp = resp]

\* The handler stands before its next database statement.
Before(pc, req, id, user, loaded, err) ==
    [Idle EXCEPT !.pc = pc, !.req = req, !.id = id, !.user = user,
                 !.loaded = loaded, !.err = err]

PasswordError == Ptr(NewInternalError("Failed to process password", Ptr(HashError)))

\* UserController.GetAllUsers up to userRepo.FindAll
StartGetAllUsers(req) == Before("FindAll", req, 0, ZeroUser, ZeroUser, Nil)

\* UserController.GetUserByID up to userRepo.FindByID
StartGetUserByID(req) ==
    LET p == parseIDParam(req.id)
    IN  IF p.err THEN Reply(req, InvalidID)
        ELSE Before("GetFindByID", req, p.id, ZeroUser, ZeroUser, Nil)

\* UserController.CreateUser and userServiceImpl.CreateUser up to userRepo.Create
StartCreateUser(req, salt, hashErr) ==
    IF BindCreateFails(req.body) THEN Reply(req, InvalidInput)
    ELSE IF hashErr THEN Reply(req, handleError(PasswordError))
    ELSE Before("CreateFindByEmail", req, 0,
                NewUser(DecodeUserCreate(req.body), salt), ZeroUser, Nil)

\* UserController.UpdateUser up to userRepo.FindByID
StartUpdateUser(req) ==
    LET p == parseIDParam(req.id)
    IN  IF p.err THEN Reply(req, InvalidID)
        ELSE IF BindUpdateFails(req.body) THEN Reply(req, InvalidInput)
        ELSE Before("UpdateFindByID", req, p.id, ZeroUser, ZeroUser, Nil)

\* UserController.DeleteUser up to userRepo.Delete
StartDeleteUser(req) ==
    LET p == parseIDParam(req.id)
    IN  IF p.err THEN Reply(req, InvalidID)
        ELSE Before("Delete", req, p.id, ZeroUser, ZeroUser, Nil)

\* userRepo.FindAll and the rest of GetAllUsers
StepFindAll(d, l, fail) ==
    LET r == FindAll(d, fail)
    IN  IF r.err # Nil THEN Reply(l.req, handleError(r.err))
        ELSE Reply(l.req, Response(StatusOK, UsersBody(r.users)))

\* userRepo.FindByID and the rest of GetUserByID
StepGetFindByID(d, l, fail) ==
    LET r == FindByID(d, l.id, fail)
    IN  IF r.err # Nil THEN Reply(l.req, handleError(r.err))
        ELSE Reply(l.req, Response(StatusOK, ToResponse(r.user)))

\* (variant) Create giving up when the lookup fails in the driver
StepCreateFindByEmail_StopOnError(d, l, fail) ==
    LET c == CreateCheck(d, l.user, fail)
    IN  IF c.found THEN Reply(l.req, handleError(DuplicateEmail(l.user)))
        ELSE IF fail THEN Reply(l.req, handleError(c.err))
        ELSE Before("CreateInsert", l.req, 0, l.user, ZeroUser, c.err)

\* userRepo.Create: the lookup, and the DuplicateResource return
StepCreateFindByEmail(d, l, fail) ==
    LET c == CreateCheck(d, l.user, fail)
    IN  IF c.found THEN Reply(l.req, handleError(DuplicateEmail(l.user)))
        ELSE Before("CreateInsert", l.req, 0, l.user, ZeroUser, c.err)

\* (variant) Create looking the email up again, in one statement with the insert
StepCreateInsert_Recheck(d, l, t, fail) ==
    IF ~fail /\ \E r \in Live(d) : r.Email = l.user.Email
    THEN [db |-> d, loc |-> Reply(l.req, handleError(DuplicateEmail(l.user)))]
    ELSE LET r == CreateInsert(d, l.user, t, fail)
         IN  [db |-> r.db,
              loc |-> IF r.err # Nil THEN Reply(l.req, handleError(r.err))
                      ELSE Reply(l.req, Response(StatusCreated, ToResponse(r.user)))]

\* userRepo.Create: the insert, and the rest of CreateUser; [db, loc]
StepCreateInsert(d, l, t, fail) ==
    LET r == CreateInsert(d, l.user, t, fail)
    IN  [db |-> r.db,
         loc |-> IF r.err # Nil THEN Reply(l.req, handleError(r.err))
                 ELSE Reply(l.req, Response(StatusCreated, ToResponse(r.user)))]

\* (variant) UpdateUser going on to userRepo.Update when the load found no row
StepUpdateFindByID_IgnoreNotFound(d, l, fail, salt, hashErr) ==
    LET r == FindByID(d, l.id, fail)
        input == DecodeUserUpdate(l.req.body)
        user == IF r.err # Nil THEN [ZeroUser EXCEPT !.ID = l.id] ELSE r.user
    IN  IF r.err # Nil /\ fail THEN Reply(l.req, handleError(r.err))
        ELSE IF input.Password # Nil /\ hashErr THEN Reply(l.req, handleError(PasswordError))
        ELSE Before("UpdateSave", l.req, l.id, ApplyUpdate(user, input, salt), user, Nil)

\* userRepo.FindByID in UpdateUser, and the merge of the input
StepUpdateFindByID(d, l, fail, salt, hashErr) ==
    LET r == FindByID(d, l.id, fail)
        input == DecodeUserUpdate(l.req.body)
    IN  IF r.err # Nil THEN Reply(l.req, handleError(r.err))
        ELSE IF input.Password # Nil /\ hashErr THEN Reply(l.req, handleError(PasswordError))
        ELSE Before("UpdateSave", l.req, l.id, ApplyUpdate(r.user, input, salt), r.user, Nil)

\* userRepo.Update and the rest of UpdateUser; [db, loc]
StepUpdateSave(d, l, t, fail) ==
    LET r == Update(d, l.user, t, fail)
    IN  [db |-> r.db,
         loc |-> IF r.err # Nil THEN Reply(l.req, handleError(r.err))
                 ELSE Reply(l.req, Response(StatusOK, ToResponse(r.user)))]

\* userRepo.Delete and the rest of DeleteUser; [db, loc]
StepDelete(d, l, t, fail) ==
    LET r == Delete(d, l.id, t, fail)
    IN  [db |-> r.db,
         loc |-> IF r.err # Nil THEN Reply(l.req, handleError(r.err))
                 ELSE Reply(l.req, Response(StatusNoContent, EmptyBody))]

-----------------------------------------------------------------------------
(* Spec: the workers serve requests concurrently against one table *)

EmptyDB == [users |-> {}, seq |-> 1]
NoPair == [n |-> 0]
NoErrv == [phase |-> "none"]
NoCall == [n |-> 0]
NoMw == [n |-> 0]
NoItems == [n |-> 0]
NoLg == [n |-> 0]
NoSrv == [n |-> 0]

NoLast == [w |-> "none", req |-> NoReq, resp |-> NoResp, fault |-> FALSE]

\* A request is taken by the first worker that is free.
Free(w) ==
    /\ proc[w].pc = "idle"
    /\ w = "w2" => proc["w1"].pc # "idle"
ReqsOf(op) == { r \in Requests : r.op = op }
\* the time a statement reads off the clock
SubMicros == {0, 789}
Ticks == { GoTime(us, ns) : us \in { u \in {now, now + 1} : u <= MaxClock }, ns \in SubMicros }

Init ==
    /\ db = EmptyDB
    /\ now = 1
    /\ proc = [w \in Workers |-> Idle]
    /\ last = NoLast
    /\ nreq = 0
    /\ pair = NoPair
    /\ errv = NoErrv
    /\ call = NoCall
    /\ mw = NoMw
    /\ items = NoItems
    /\ lg = NoLg
    /\ srv = NoSrv

\* Worker w goes on as loc says: to its next statement, or, the response
\* written, back to idle.  fail: the statement just made failed in the driver.
Goes(w, loc, fail) ==
    IF loc.pc = "done"
    THEN /\ proc' = [proc EXCEPT ![w] = Idle]
         /\ last' = [w |-> w, req |-> loc.req, resp |-> loc.resp,
                     fault |-> proc[w].fault \/ fail]
    ELSE /\ proc' = [proc EXCEPT ![w] = [loc EXCEPT !.fault = proc[w].fault \/ fail]]
         /\ UNCHANGED last

GetAllUsers(w) ==
    /\ Free(w)
    /\ nreq < MaxReq
    /\ \E req \in ReqsOf("GetAllUsers") : Goes(w, StartGetAllUsers(req), FALSE)
    /\ nreq' = nreq + 1
    /\ UNCHANGED <<db, now, pair, errv, call, mw, items, lg, srv>>

GetUserByID(w) ==
    /\ Free(w)
    /\ nreq < MaxReq
    /\ \E req \in ReqsOf("GetUserByID") : Goes(w, StartGetUserByID(req), FALSE)
    /\ nreq' = nreq + 1
    /\ UNCHANGED <<db, now, pair, errv, call, mw, items, lg, srv>>

CreateUser(w) ==
    /\ Free(w)
    /\ nreq < MaxReq
    /\ \E req \in ReqsOf("CreateUser"), salt \in Salts, hashErr \in BOOLEAN :
           Goes(w, StartCreateUser(req, salt, hashErr), FALSE)
    /\ nreq' = nreq + 1
    /\ UNCHANGED <<db, now, pair, errv, call, mw, items, lg, srv>>

UpdateUser(w) ==
    /\ Free(w)
    /\ nreq < MaxReq
    /\ \E req \in ReqsOf("UpdateUser") : Goes(w, StartUpdateUser(req), FALSE)
    /\ nreq' = nreq + 1
    /\ UNCHANGED <<db, now, pair, errv, call, mw, items, lg, srv>>

DeleteUser(w) ==
    /\ Free(w)
    /\ nreq < MaxReq
    /\ \E req \in ReqsOf("DeleteUser") : Goes(w, StartDeleteUser(req), FALSE)
    /\ nreq' = nreq + 1
    /\ UNCHANGED <<db, now, pair, errv, call, mw, items, lg, srv>>

DoFindAll(w) ==
    /\ proc[w].pc = "FindAll"
    /\ \E fail \in BOOLEAN : Goes(w, StepFindAll(db, proc[w], fail), fail)
    /\ UNCHANGED <<db, now, nreq, pair, errv, call, mw, items, lg, srv>>

DoGetFindByID(w) ==
    /\ proc[w].pc = "GetFindByID"
    /\ \E fail \in BOOLEAN : Goes(w, StepGetFindByID(db, proc[w], fail), fail)
    /\ UNCHANGED <<db, now, nreq, pair, errv, call, mw, items, lg, srv>>

DoCreateFindByEmail(w) ==
    /\ proc[w].pc = "CreateFindByEmail"
    /\ \E fail \in BOOLEAN : Goes(w, StepCreateFindByEmail(db, proc[w], fail), fail)
    /\ UNCHANGED <<db, now, nreq, pair, errv, call, mw, items, lg, srv>>

DoCreateInsert(w) ==
    /\ proc[w].pc = "CreateInsert"
    /\ \E fail \in BOOLEAN, t \in Ticks :
           LET r == StepCreateInsert(db, proc[w], t, fail)
           IN  /\ db' = r.db
               /\ now' = Micros(t)
               /\ Goes(w, r.loc, fail)
    /\ UNCHANGED <<nreq, pair, errv, call, mw, items, lg, srv>>

DoUpdateFindByID(w) ==
    /\ proc[w].pc = "UpdateFindByID"
    /\ \E fail \in BOOLEAN, salt \in Salts, hashErr \in BOOLEAN :
           Goes(w, StepUpdateFindByID(db, proc[w], fail, salt, hashErr), fail)
    /\ UNCHANGED <<db, now, nreq, pair, errv, call, mw, items, lg, srv>>

DoUpdateSave(w) ==
    /\ proc[w].pc = "UpdateSave"
    /\ \E fail \in BOOLEAN, t \in Ticks :
           LET r == StepUpdateSave(db, proc[w], t, fail)
           IN  /\ db' = r.db
               /\ now' = Micros(t)
               /\ Goes(w, r.loc, fail)
    /\ UNCHANGED <<nreq, pair, errv, call, mw, items, lg, srv>>

DoDelete(w) ==
    /\ proc[w].pc = "Delete"
    /\ \E fail \in BOOLEAN, t \in Ticks :
           LET r == StepDelete(db, proc[w], t, fail)
           IN  /\ db' = r.db
               /\ now' = Micros(t)
               /\ Goes(w, r.loc, fail)
    /\ UNCHANGED <<nreq, pair, errv, call, mw, items, lg, srv>>

Next ==
    \E w \in Workers :
        \/ GetAllUsers(w)
        \/ GetUserByID(w)
        \/ CreateUser(w)
        \/ UpdateUser(w)
        \/ DeleteUser(w)
        \/ DoFindAll(w)
        \/ DoGetFindByID(w)
        \/ DoCreateFindByEmail(w)
        \/ DoCreateInsert(w)
        \/ DoUpdateFindByID(w)
        \/ DoUpdateSave(w)
        \/ DoDelete(w)

Spec == Init /\ [][Next]_vars


-----------------------------------------------------------------------------
(* Properties of Spec *)

\* resp is the error response with this status and code
IsError(resp, status, code) ==
    /\ resp.status = status
    /\ "code" \in DOMAIN resp.body
    /\ resp.body.code = code

\* In this step worker w wrote the response of the request it was serving.
Answers(w) ==
    /\ proc[w].pc # "idle"
    /\ proc'[w].pc = "idle"
    /\ last'.w = w
    /\ last'.req = proc[w].req

\* No request but w's is in flight.
Alone(w) == \A v \in Workers \ {w} : proc[v].pc = "idle"

\* C1: at every moment, under every interleaving of concurrent requests, no two
\* non-deleted users have the same email.
C1_UniqueEmail ==
    \A r, q \in Live(db) : r.ID # q.ID => r.Email # q.Email

\* Two users are stored, and a write that would have given a second user an
\* email in use was refused by the table.
C1_Witness ==
    /\ Cardinality(Live(db)) = 2
    /\ last.req.op \in {"CreateUser", "UpdateUser"}
    /\ ~last.fault
    /\ IsError(last.resp, StatusInternalServerError, ErrCodeDatabase)

\* The lookup step of a create whose email a non-deleted user holds, no other
\* request in flight.
C2_Step(w) ==
    /\ proc[w].pc = "CreateFindByEmail"
    /\ proc'[w] # proc[w]
    /\ Alone(w)
    /\ \E r \in Live(db) : r.Email = proc[w].user.Email

\* The create ends there with 409 DUPLICATE_RESOURCE: the insert is never
\* reached and the table is as it was.
C2_Rejected(w) ==
    /\ Answers(w)
    /\ IsError(last'.resp, StatusConflict, ErrCodeDuplicateResource)
    /\ db' = db

PlainOf(req) == StrOrZero(req.body.password)
Hashes(p) == { Hash(p, s) : s \in Salts }
AllPlain == { PlainOf(r) : r \in Requests } \ {""}

\* What a create, or an update that sets a password, hands to the repository
C4_Handed ==
    \A w \in Workers :
        (\/ proc[w].pc \in {"CreateFindByEmail", "CreateInsert"}
         \/ proc[w].pc = "UpdateSave" /\ proc[w].req.body.password # Nil)
        => /\ proc[w].user.Password \in Hashes(PlainOf(proc[w].req))
           /\ proc[w].user.Password # PlainOf(proc[w].req)

C4_NeverPlain == \A r \in db.users : r.Password \notin AllPlain

\* A create or password update that succeeds has stored the value handed over.
C4_Persisted(w) ==
    /\ Answers(w)
    /\ \/ proc[w].pc = "CreateInsert" /\ last'.resp.status = StatusCreated
       \/ /\ proc[w].pc = "UpdateSave" /\ last'.resp.status = StatusOK
          /\ proc[w].req.body.password # Nil
    => \E r \in Live(db') : /\ r.ID = last'.resp.body.id
                            /\ r.Password = proc[w].user.Password

\* C4: after every successful CreateUser, and every successful UpdateUser that
\* supplies a password, the password handed to the repository and persisted is
\* the hash output and differs from the plaintext; no plaintext is ever stored.
C4_HashedPassword ==
    /\ [](C4_Handed /\ C4_NeverPlain)
    /\ [][\A w \in Workers : C4_Persisted(w)]_vars

C4_Witness ==
    /\ last.req.op = "UpdateUser"
    /\ last.req.body.password # Nil
    /\ last.resp.status = StatusOK
    /\ \E r \in Live(db) : /\ r.ID = last.resp.body.id
                           /\ r.Password \in Hashes(PlainOf(last.req))
                           /\ r.Password # PlainOf(last.req)

\* The lookup step of a GetUserByID whose id no non-deleted user has
C5_Step(w) ==
    /\ proc[w].pc = "GetFindByID"
    /\ Answers(w)
    /\ ~\E r \in Live(db) : r.ID = proc[w].id

\* C5 as stated: GetUserByID for an id that matches no non-deleted user always
\* answers 404 RESOURCE_NOT_FOUND, never a 500.
C5_Original ==
    [][\A w \in Workers :
          C5_Step(w) => IsError(last'.resp, StatusNotFound, ErrCodeResourceNotFound)]_vars

\* C5, amended: it answers 404 RESOURCE_NOT_FOUND whenever the lookup statement
\* completes; a lookup that fails in the driver is answered with a 500.
C5_Amended ==
    [][\A w \in Workers :
          C5_Step(w) /\ ~last'.fault
          => IsError(last'.resp, StatusNotFound, ErrCodeResourceNotFound)]_vars

C5_Witness ==
    /\ last.req.op = "GetUserByID"
    /\ ~last.fault
    /\ IsError(last.resp, StatusNotFound, ErrCodeResourceNotFound)
    /\ \E r \in db.users : r.ID = parseIDParam(last.req.id).id /\ r.DeletedAt # Nil


\* The stored record with this id, before and after a step
RowsOf(d, id) == { r \in d.users : r.ID = id }

\* q agrees with r in every field the update body leaves unset
UnsetKept(body, r, q) ==
    /\ body.name = Nil => q.Name = r.Name
    /\ body.email = Nil => q.Email = r.Email
    /\ body.password = Nil => q.Password = r.Password
    /\ body.role = Nil => q.Role = r.Role
    /\ body.active = Nil => q.Active = r.Active

\* C6: a successful UpdateUser changes only the fields present in its input:
\* for every field among name, email, password, role and active that the input
\* leaves unset, the stored value after the update equals the stored value
\* before it.
C6_OnlyPresentFields ==
    [][\A w \in Workers :
          /\ proc[w].pc = "UpdateSave"
          /\ Answers(w)
          /\ last'.resp.status = StatusOK
          => \A r \in RowsOf(db, proc[w].id), q \in RowsOf(db', proc[w].id) :
                 UnsetKept(proc[w].req.body, r, q)]_vars

\* DeleteUser(id) has succeeded: the record carries a deletion time.
C7_Deleted(id) == \E r \in db.users : r.ID = id /\ r.DeletedAt # Nil

\* What GetUserByID(id) answers on table d when its lookup completes
C7_Get(d, id) ==
    StepGetFindByID(d, [Idle EXCEPT !.id = id], FALSE).resp

\* C7: once DeleteUser(id) has succeeded, every later GetUserByID(id) answers
\* ResourceNotFound, whatever operations run in between.
C7_DeletedStaysNotFound ==
    [][\A id \in 1..MaxReq :
          C7_Deleted(id)
          => IsError(C7_Get(db', id), StatusNotFound, ErrCodeResourceNotFound)]_vars

\* The requests C8 is about: bad id, malformed body, a required create field
\* missing, an invalid email, a short password, a role outside the set.
C8_BadCreate(b) ==
    \/ b.malformed
    \/ b.name \in {Nil, Ptr("")}
    \/ b.email = Nil
    \/ b.password = Nil
    \/ Deref(b.email) \notin ValidEmails
    \/ Len(Deref(b.password)) < 6
    \/ b.role \notin {Nil, Ptr("")} /\ Deref(b.role) \notin RoleNames

C8_BadUpdate(b) ==
    \/ b.malformed
    \/ b.email # Nil /\ Deref(b.email) \notin ValidEmails
    \/ b.password # Nil /\ Len(Deref(b.password)) < 6
    \/ b.role # Nil /\ Deref(b.role) \notin RoleNames

C8_Invalid(req) ==
    \/ req.op \in {"GetUserByID", "UpdateUser", "DeleteUser"} /\ req.id \in BadIDParams
    \/ req.op = "CreateUser" /\ C8_BadCreate(req.body)
    \/ req.op = "UpdateUser" /\ C8_BadUpdate(req.body)

\* No request at a storage statement is one that fails validation.
C8_NeverServed == \A w \in Workers : proc[w].pc # "idle" => ~C8_Invalid(proc[w].req)

\* A request that fails validation was answered 400 INVALID_INPUT.
C8_Answered ==
    C8_Invalid(last.req) => IsError(last.resp, StatusBadRequest, ErrCodeInvalidInput)

\* C8: every user request that fails validation is answered 400 INVALID_INPUT,
\* without any service or storage operation, so the stored users are unchanged.
C8_ValidationRejects ==
    /\ [](C8_NeverServed /\ C8_Answered)
    /\ [][nreq' # nreq => db' = db]_vars

C8_Witness ==
    /\ db.users # {}
    /\ last.req.op = "UpdateUser"
    /\ C8_BadUpdate(last.req.body)
    /\ IsError(last.resp, StatusBadRequest, ErrCodeInvalidInput)


-----------------------------------------------------------------------------
(* SpecErr: the error taxonomy on its own.  An error value is built by one of   *)
(* the constructors (or is an untyped error), may be wrapped by an untyped      *)
(* error, and is handed to the controller's handleError.                        *)

ErrKinds ==
    {"InvalidInput", "ResourceNotFound", "DuplicateResource", "Database",
     "Internal", "Unauthorized", "Forbidden", "untyped"}
ErrMessages == {"User not found", "boom"}
ErrDetails == {Nil, Ptr([id |-> 1])}
ErrCauses == {Nil, Ptr(PlainError("driver: bad connection", Nil))}

\* The call of the constructor of this kind; "untyped" is errors.New / fmt.Errorf.
Construct(kind, message, details, cause) ==
    CASE kind = "InvalidInput" -> NewInvalidInputError(message, details, cause)
      [] kind = "ResourceNotFound" -> NewResourceNotFoundError(message, details, cause)
      [] kind = "DuplicateResource" -> NewDuplicateResourceError(message, details, cause)
      [] kind = "Database" -> NewDatabaseError(message, cause)
      [] kind = "Internal" -> NewInternalError(message, cause)
      [] kind = "Unauthorized" -> NewUnauthorizedError(message, cause)
      [] kind = "Forbidden" -> NewForbiddenError(message, cause)
      [] kind = "untyped" -> PlainError(message, cause)

ErrInputs ==
    [phase : {"input"}, kind : ErrKinds, message : ErrMessages,
     details : ErrDetails, cause : ErrCauses, wrapped : {FALSE},
     err : {Nil}, status : {0}, resp : {NoResp}]

InitErr ==
    /\ db = EmptyDB
    /\ now = 1
    /\ proc = [w \in Workers |-> Idle]
    /\ last = NoLast
    /\ nreq = 0
    /\ pair = NoPair
    /\ errv \in ErrInputs
    /\ call = NoCall
    /\ mw = NoMw
    /\ items = NoItems
    /\ lg = NoLg
    /\ srv = NoSrv

ErrConstruct ==
    /\ errv.phase = "input"
    /\ errv' = [errv EXCEPT
                   !.phase = "built",
                   !.err = Ptr(Construct(errv.kind, errv.message, errv.details, errv.cause))]
    /\ UNCHANGED <<db, now, proc, last, nreq, pair, call, mw, items, lg, srv>>

\* fmt.Errorf("...: %w", err)
ErrWrap ==
    /\ errv.phase = "built"
    /\ ~errv.wrapped
    /\ errv' = [errv EXCEPT !.wrapped = TRUE,
                            !.err = Ptr(PlainError("context", errv.err))]
    /\ UNCHANGED <<db, now, proc, last, nreq, pair, call, mw, items, lg, srv>>

ErrHandle ==
    /\ errv.phase = "built"
    /\ errv' = [errv EXCEPT !.phase = "handled",
                            !.status = GetStatusCode(errv.err),
                            !.resp = handleError(errv.err)]
    /\ UNCHANGED <<db, now, proc, last, nreq, pair, call, mw, items, lg, srv>>

NextErr ==
    \/ ErrConstruct
    \/ ErrWrap
    \/ ErrHandle

SpecErr == InitErr /\ [][NextErr]_vars

\* The body C9 gives a typed error: its code, message and details
C9_Body(code, message, details) ==
    IF details = Nil THEN [code |-> code, message |-> message]
    ELSE [code |-> code, message |-> message, details |-> Deref(details)]

\* The details a constructor of this kind keeps
C9_Details(kind, details) ==
    IF kind \in {"InvalidInput", "ResourceNotFound", "DuplicateResource"}
    THEN details ELSE Nil

\* C10: the (status, code) pair of each error kind
C10_Table ==
    [InvalidInput |-> <<400, "INVALID_INPUT">>,
     ResourceNotFound |-> <<404, "RESOURCE_NOT_FOUND">>,
     DuplicateResource |-> <<409, "DUPLICATE_RESOURCE">>,
     Database |-> <<500, "DATABASE_ERROR">>,
     Internal |-> <<500, "INTERNAL_ERROR">>,
     Unauthorized |-> <<401, "UNAUTHORIZED">>,
     Forbidden |-> <<403, "FORBIDDEN">>]

\* C9: handleError answers a typed application error with that error's own
\* status and the body {code, message, details}; any other error with 500 and
\* code INTERNAL_ERROR with the fixed message "An unexpected error occurred".
C9_HandleError ==
    errv.phase = "handled" =>
        IF errv.kind # "untyped"
        THEN LET e == IF errv.wrapped THEN Deref(Deref(errv.err).Err) ELSE Deref(errv.err)
             IN  /\ errv.resp.status = e.StatusCode
                 /\ errv.resp.body = C9_Body(e.Code, errv.message,
                                             C9_Details(errv.kind, errv.details))
        ELSE /\ errv.resp.status = 500
             /\ errv.resp.body = [code |-> "INTERNAL_ERROR",
                                  message |-> "An unexpected error occurred"]

C9_Witness ==
    /\ errv.phase = "handled"
    /\ errv.kind = "untyped"
    /\ errv.cause # Nil
    /\ errv.resp.status = 500

\* C10: every error a constructor builds has the status and the code of its
\* kind, whatever message, details or cause it is given.
C10_FixedPairs ==
    errv.phase \in {"built", "handled"} /\ errv.kind # "untyped" =>
        LET e == IF errv.wrapped THEN Deref(Deref(errv.err).Err) ELSE Deref(errv.err)
        IN  /\ <<e.StatusCode, e.Code>> = C10_Table[errv.kind]
            /\ errv.phase = "handled" => errv.status = C10_Table[errv.kind][1]

C10_Witness ==
    /\ errv.phase = "handled"
    /\ errv.kind = "DuplicateResource"
    /\ errv.details # Nil
    /\ errv.cause # Nil
    /\ errv.status = 409


-----------------------------------------------------------------------------
(* SpecPair: two copies of the system, a and b, are fed the same requests one   *)
(* at a time under the same driver failures, except that the password of a      *)
(* request to a and of its twin to b may differ (and bcrypt draws salt s1 in a, *)
(* s2 in b).                                                                    *)

\* The handler of req up to its first database statement
StartOf(req, salt, hashErr) ==
    CASE req.op = "GetAllUsers" -> StartGetAllUsers(req)
      [] req.op = "GetUserByID" -> StartGetUserByID(req)
      [] req.op = "CreateUser" -> StartCreateUser(req, salt, hashErr)
      [] req.op = "UpdateUser" -> StartUpdateUser(req)
      [] req.op = "DeleteUser" -> StartDeleteUser(req)

\* The statement the handler stands before, and the code after it; [db, loc]
StepOf(d, l, t, fail, salt, hashErr) ==
    CASE l.pc = "FindAll" -> [db |-> d, loc |-> StepFindAll(d, l, fail)]
      [] l.pc = "GetFindByID" -> [db |-> d, loc |-> StepGetFindByID(d, l, fail)]
      [] l.pc = "CreateFindByEmail" -> [db |-> d, loc |-> StepCreateFindByEmail(d, l, fail)]
      [] l.pc = "CreateInsert" -> StepCreateInsert(d, l, t, fail)
      [] l.pc = "UpdateFindByID" ->
             [db |-> d, loc |-> StepUpdateFindByID(d, l, fail, salt, hashErr)]
      [] l.pc = "UpdateSave" -> StepUpdateSave(d, l, t, fail)
      [] l.pc = "Delete" -> StepDelete(d, l, t, fail)
      [] l.pc = "done" -> [db |-> d, loc |-> l]

\* The second statement of a handler, after its first one gave r = [db, loc]
ThenStepOf(r, t, fail, salt, hashErr) ==
    StepOf(r.db, r.loc, t, fail, salt, hashErr)

\* What the client and the table are left with
Served(r) == [db |-> r.db, resp |-> r.loc.resp]

\* A request served from start to response with no other request in between:
\* no handler makes more than two statements.  e: what the environment does.
Serve(d, req, t, e) ==
    Served(ThenStepOf(StepOf(d, StartOf(req, e.salt, e.hashErr), t, e.fail1,
                             e.salt, e.hashErr),
                      t, e.fail2, e.salt, e.hashErr))

TwinPasswords == {"secret1", "hunter22", "abc"}
\* the statement of the handler that fails in the driver (0: none)
FailAt == {0, 1, 2}

TwinCreate(email, p) ==
    [op |-> "CreateUser", id |-> <<>>,
     body |-> JSONBody(Ptr("Ann"), Ptr(email), Ptr(p), Nil, Nil)]
TwinUpdate(p) ==
    [op |-> "UpdateUser", id |-> <<"1">>,
     body |-> JSONBody(Ptr("Bob"), Nil, Ptr(p), Nil, Nil)]
TwinPlain(op) == [op |-> op, id |-> IF op = "GetAllUsers" THEN <<>> ELSE <<"1">>,
                  body |-> NoBody]

Env(salt, hashErr, fail1, fail2) ==
    [salt |-> salt, hashErr |-> hashErr, fail1 |-> fail1, fail2 |-> fail2]

\* The tables agree in everything but the stored password hashes.
Strip(users) == { [r EXCEPT !.Password = ""] : r \in users }
SameButPasswords(a, b) == a.seq = b.seq /\ Strip(a.users) = Strip(b.users)

PairStart ==
    [n |-> 0, a |-> EmptyDB, b |-> EmptyDB, reqa |-> NoReq, reqb |-> NoReq,
     respa |-> NoResp, respb |-> NoResp, herra |-> FALSE, herrb |-> FALSE,
     agreed |-> TRUE]

\* The pair after ra and rb were served
Twins(reqa, reqb, ra, rb, herra, herrb) ==
    [n |-> pair.n + 1, a |-> ra.db, b |-> rb.db,
     reqa |-> reqa, reqb |-> reqb,
     respa |-> ra.resp, respb |-> rb.resp,
     herra |-> herra, herrb |-> herrb,
     agreed |-> SameButPasswords(pair.a, pair.b)]

\* reqa goes to a, reqb to b, at the same time and under the same failures.
ServeBoth(reqa, reqb, herra, herrb, fail1, fail2) ==
    pair' = Twins(reqa, reqb,
                  Serve(pair.a, reqa, GoTime(pair.n + 1, 0), Env("s1", herra, fail1, fail2)),
                  Serve(pair.b, reqb, GoTime(pair.n + 1, 0), Env("s2", herrb, fail1, fail2)),
                  herra, herrb)

InitPair ==
    /\ db = EmptyDB
    /\ now = 1
    /\ proc = [w \in Workers |-> Idle]
    /\ last = NoLast
    /\ nreq = 0
    /\ pair = PairStart
    /\ errv = NoErrv
    /\ call = NoCall
    /\ mw = NoMw
    /\ items = NoItems
    /\ lg = NoLg
    /\ srv = NoSrv

PairCreateUser ==
    /\ pair.n < MaxPairReq
    /\ \E p, q \in TwinPasswords, herra, herrb \in BOOLEAN, f \in FailAt :
           ServeBoth(TwinCreate("a@x.com", p), TwinCreate("a@x.com", q),
                     herra, herrb, f = 1, f = 2)
    /\ UNCHANGED <<db, now, proc, last, nreq, errv, call, mw, items, lg, srv>>

PairUpdateUser ==
    /\ pair.n < MaxPairReq
    /\ \E p, q \in TwinPasswords, herra, herrb \in BOOLEAN, f \in FailAt :
           ServeBoth(TwinUpdate(p), TwinUpdate(q), herra, herrb, f = 1, f = 2)
    /\ UNCHANGED <<db, now, proc, last, nreq, errv, call, mw, items, lg, srv>>

PairGetAllUsers ==
    /\ pair.n < MaxPairReq
    /\ \E fail1 \in BOOLEAN :
           ServeBoth(TwinPlain("GetAllUsers"), TwinPlain("GetAllUsers"),
                     FALSE, FALSE, fail1, FALSE)
    /\ UNCHANGED <<db, now, proc, last, nreq, errv, call, mw, items, lg, srv>>

PairGetUserByID ==
    /\ pair.n < MaxPairReq
    /\ \E fail1 \in BOOLEAN :
           ServeBoth(TwinPlain("GetUserByID"), TwinPlain("GetUserByID"),
                     FALSE, FALSE, fail1, FALSE)
    /\ UNCHANGED <<db, now, proc, last, nreq, errv, call, mw, items, lg, srv>>

PairDeleteUser ==
    /\ pair.n < MaxPairReq
    /\ \E fail1 \in BOOLEAN :
           ServeBoth(TwinPlain("DeleteUser"), TwinPlain("DeleteUser"),
                     FALSE, FALSE, fail1, FALSE)
    /\ UNCHANGED <<db, now, proc, last, nreq, errv, call, mw, items, lg, srv>>

NextPair ==
    \/ PairCreateUser
    \/ PairUpdateUser
    \/ PairGetAllUsers
    \/ PairGetUserByID
    \/ PairDeleteUser

SpecPair == InitPair /\ [][NextPair]_vars

\* A response body has no password member: an error body, a user, a list of users
NoPasswordIn(resp) ==
    /\ "password" \notin DOMAIN resp.body
    /\ "users" \in DOMAIN resp.body =>
           \A i \in DOMAIN resp.body.users : "password" \notin DOMAIN resp.body.users[i]

\* The twins' passwords both pass validation and both hash without error.
C3_BothAccepted ==
    /\ Len(PlainOf(pair.reqa)) >= 6 \/ PlainOf(pair.reqa) = ""
    /\ Len(PlainOf(pair.reqb)) >= 6 \/ PlainOf(pair.reqb) = ""
    /\ ~pair.herra /\ ~pair.herrb

\* The twins were served from tables that agreed in all but the password hashes.
C3_Served == pair.n > 0 /\ pair.agreed

\* C3 as stated: no response body contains the password or its hash; two
\* requests that differ only in the password value receive identical responses.
C3_Original ==
    C3_Served =>
        /\ NoPasswordIn(pair.respa) /\ NoPasswordIn(pair.respb)
        /\ pair.respa = pair.respb

\* C3, amended: no response body contains the password or its hash; two
\* requests that differ only in the password value, both values passing
\* validation and hashing, receive identical responses (and leave tables that
\* agree in all but the stored hash).
C3_Amended ==
    C3_Served =>
        /\ NoPasswordIn(pair.respa) /\ NoPasswordIn(pair.respb)
        /\ C3_BothAccepted =>
               /\ pair.respa = pair.respb
               /\ SameButPasswords(pair.a, pair.b)

C3_Witness ==
    /\ C3_Served
    /\ C3_BothAccepted
    /\ pair.reqa.op = "UpdateUser"
    /\ PlainOf(pair.reqa) # PlainOf(pair.reqb)
    /\ pair.respa.status = StatusOK
    /\ pair.respa = pair.respb
    /\ \E r \in pair.a.users, q \in pair.b.users : r.ID = q.ID /\ r.Password # q.Password


-----------------------------------------------------------------------------
(* Further properties of Spec *)

\* The insert of a create, or the save of an update, whose email another
\* non-deleted user holds by the time the statement runs
C11_InsertCollides(w) ==
    /\ proc[w].pc = "CreateInsert"
    /\ Answers(w)
    /\ \E r \in Live(db) : r.Email = proc[w].user.Email

C11_SaveCollides(w) ==
    /\ proc[w].pc = "UpdateSave"
    /\ Answers(w)
    /\ \E r \in Live(db) : r.ID # proc[w].user.ID /\ r.Email = proc[w].user.Email

\* The answer is 500 DATABASE_ERROR with the operation's fixed message and
\* nothing else, and the rows are as they were.
C11_Reported(message) ==
    /\ last'.resp = Response(StatusInternalServerError,
                             [code |-> ErrCodeDatabase, message |-> message])
    /\ db'.users = db.users

\* C11: a uniqueness violation the email pre-check does not catch (the loser of
\* two racing creates, an update to an email in use) is answered 500
\* DATABASE_ERROR, the underlying cause is not part of the response, and the
\* failed request adds no row.
C11_ViolationIsDatabaseError ==
    [][\A w \in Workers :
          /\ C11_InsertCollides(w) => C11_Reported("Failed to create user")
          /\ C11_SaveCollides(w) => C11_Reported("Failed to update user")]_vars

\* The loser of a race: its lookup completed and found nothing, its insert
\* was refused.
C11_Witness ==
    /\ last.req.op = "CreateUser"
    /\ ~last.fault
    /\ last.resp = Response(StatusInternalServerError,
                            [code |-> ErrCodeDatabase, message |-> "Failed to create user"])
    /\ \E r \in Live(db) : r.Email = Deref(last.req.body.email)


\* The identifiers in use
IDs(rows) == { r.ID : r \in rows }

\* A create that succeeds returns a fresh non-zero identifier, now stored.
C12_Created(w) ==
    /\ proc[w].pc = "CreateInsert"
    /\ Answers(w)
    /\ last'.resp.status = StatusCreated
    => /\ last'.resp.body.id # 0
       /\ last'.resp.body.id \notin IDs(db.users)
       /\ last'.resp.body.id \in IDs(Live(db'))

\* A response body with its timestamps at the resolution of the table
C12_AsStored(body) ==
    [body EXCEPT !.created_at = PgTimestamp(@), !.updated_at = PgTimestamp(@)]

\* An update that succeeds stores and returns the record under the id of the
\* request, and no identifier appears or disappears.
C12_Updated(w) ==
    /\ proc[w].pc = "UpdateSave"
    /\ Answers(w)
    /\ last'.resp.status = StatusOK
    => /\ last'.resp.body.id = parseIDParam(proc[w].req.id).id
       /\ IDs(db'.users) = IDs(db.users)
       /\ \E r \in Live(db') : ToResponse(r) = C12_AsStored(last'.resp.body)

\* C12: every successful CreateUser returns a record with a non-zero
\* identifier, and the identifier of a stored user never changes: a successful
\* UpdateUser(id, input) persists and returns a record whose identifier is id.
C12_IdentifierFixed ==
    [][/\ \A w \in Workers : C12_Created(w) /\ C12_Updated(w)
       /\ IDs(db.users) \subseteq IDs(db'.users)
       /\ \A r, q \in db'.users : r.ID = q.ID => r = q]_vars

C12_Witness ==
    /\ last.req.op = "UpdateUser"
    /\ last.req.id = <<"0", "2">>
    /\ last.req.body.email # Nil
    /\ last.resp.status = StatusOK
    /\ last.resp.body.id = 2
    /\ \E r \in Live(db) : r.ID = 2 /\ r.Email = Deref(last.req.body.email)


\* The role a create request asks for; "" when the key is absent or empty
C13_AskedRole(req) == StrOrZero(req.body.role)

\* C13: a user created without a role (or with an empty role) is stored and
\* returned with role "user", and every newly created user is stored and
\* returned with active = true, whatever the input.
C13_CreateDefaults ==
    [][\A w \in Workers :
          /\ proc[w].pc = "CreateInsert"
          /\ Answers(w)
          /\ last'.resp.status = StatusCreated
          => \E r \in Live(db') :
                 /\ r.ID = last'.resp.body.id
                 /\ r.Active /\ last'.resp.body.active
                 /\ r.Role = last'.resp.body.role
                 /\ r.Role = IF C13_AskedRole(proc[w].req) = "" THEN "user"
                             ELSE C13_AskedRole(proc[w].req)]_vars

C13_Witness ==
    /\ last.req.op = "CreateUser"
    /\ last.req.body.role = Ptr("")
    /\ last.resp.status = StatusCreated
    /\ last.resp.body.role = "user"
    /\ last.resp.body.active
    /\ \E r \in Live(db) : r.ID = last.resp.body.id /\ r.Role = "user" /\ r.Active


\* C14: in every reachable state every stored user has a role in {admin, user},
\* a non-empty name and a non-empty email; no accepted create or update
\* (an update whose role, name or email is the empty string included) stores a
\* value outside these sets.
C14_StoredValuesValid ==
    \A r \in db.users :
        /\ r.Role \in RoleNames
        /\ r.Name # ""
        /\ r.Email # ""

\* Worker w answers a DeleteUser request in this step.
C15_Step(w) ==
    /\ proc[w].pc = "Delete"
    /\ Answers(w)

\* What DeleteUser(id) does when the delete statement is issued: with no
\* non-deleted user of that id, 404 RESOURCE_NOT_FOUND and the table as it was;
\* with one, 204 and an empty body.
C15_Outcome(w) ==
    IF \E r \in Live(db) : r.ID = proc[w].id
    THEN last'.resp = Response(StatusNoContent, EmptyBody)
    ELSE /\ IsError(last'.resp, StatusNotFound, ErrCodeResourceNotFound)
         /\ db' = db

\* C15 as stated: DeleteUser(id) for an id that matches no non-deleted user
\* answers 404 RESOURCE_NOT_FOUND and changes nothing, and DeleteUser of an
\* existing user answers 204 with an empty body.
C15_Original ==
    [][\A w \in Workers : C15_Step(w) => C15_Outcome(w)]_vars

\* C15, amended: these are the answers whenever the delete statement completes
\* (so the second of two successive deletes of one id answers 404); a delete
\* statement that fails in the driver is answered with a 500 and changes
\* nothing.
C15_Amended ==
    [][\A w \in Workers :
          C15_Step(w)
          => IF last'.fault
             THEN /\ IsError(last'.resp, StatusInternalServerError, ErrCodeDatabase)
                  /\ db' = db
             ELSE C15_Outcome(w)]_vars

\* The second delete of a user was answered 404, its row still marked deleted.
C15_Witness ==
    /\ last.req.op = "DeleteUser"
    /\ ~last.fault
    /\ IsError(last.resp, StatusNotFound, ErrCodeResourceNotFound)
    /\ \E r \in db.users : r.ID = parseIDParam(last.req.id).id /\ r.DeletedAt # Nil

\* The delete statement of worker w succeeds in this step: the row of that id
\* is still stored, its deletion marker set and every other field as it was.
C16_Marked(w) ==
    C15_Step(w) /\ last'.resp.status = StatusNoContent
    => \A r \in Live(db) :
           r.ID = proc[w].id
           => \E q \in db'.users : /\ q.DeletedAt # Nil
                                   /\ [q EXCEPT !.DeletedAt = Nil] = r

\* No read returns the deleted record r from the table d.
C16_Hidden(d, r) ==
    /\ \A i \in DOMAIN FindAll(d, FALSE).users : FindAll(d, FALSE).users[i].ID # r.ID
    /\ FindByID(d, r.ID, FALSE).err # Nil
    /\ \/ FindByEmail(d, r.Email, FALSE).err # Nil
       \/ FindByEmail(d, r.Email, FALSE).user.ID # r.ID

\* C16: deletion is soft.  After DeleteUser(id) succeeds the row still exists
\* with its deletion marker set and all other fields unchanged, it stays so,
\* and no read operation (GetAllUsers, FindByID, FindByEmail) ever returns it.
C16_SoftDeleteHidden ==
    [][/\ \A w \in Workers : C16_Marked(w)
       /\ \A r \in db.users :
              r.DeletedAt # Nil => r \in db'.users /\ C16_Hidden(db', r)]_vars

\* Worker w runs the initial load of UpdateUser in this step, for an id that
\* no non-deleted user has.
C17_Step(w) ==
    /\ proc[w].pc = "UpdateFindByID"
    /\ proc'[w] # proc[w]
    /\ ~\E r \in Live(db) : r.ID = proc[w].id

\* C17 as stated: UpdateUser for an id that matches no non-deleted user returns
\* 404 RESOURCE_NOT_FOUND from the initial load, never calls the gateway's
\* Update, and neither creates nor modifies any row.
C17_Original ==
    [][\A w \in Workers :
          C17_Step(w)
          => /\ Answers(w)
             /\ db' = db
             /\ IsError(last'.resp, StatusNotFound, ErrCodeResourceNotFound)]_vars

\* C17, amended: the request ends at the initial load, without a call of the
\* gateway's Update and with every row as it was; the answer is 404
\* RESOURCE_NOT_FOUND whenever the load completes, and 500 DATABASE_ERROR when
\* the load itself fails in the driver.
C17_Amended ==
    [][\A w \in Workers :
          C17_Step(w)
          => /\ Answers(w)
             /\ db' = db
             /\ IF last'.fault
                THEN IsError(last'.resp, StatusInternalServerError, ErrCodeDatabase)
                ELSE IsError(last'.resp, StatusNotFound, ErrCodeResourceNotFound)]_vars

\* An update of a deleted user was answered 404 by its load.
C17_Witness ==
    /\ last.req.op = "UpdateUser"
    /\ ~last.fault
    /\ IsError(last.resp, StatusNotFound, ErrCodeResourceNotFound)
    /\ \E r \in db.users : r.ID = parseIDParam(last.req.id).id /\ r.DeletedAt # Nil

\* The last completed exchange is the successful creation of user id.
C18_JustCreated(id) ==
    /\ last.req.op = "CreateUser"
    /\ last.resp.status = StatusCreated
    /\ last.resp.body.id = id

\* C18: after a successful CreateUser, a GET of the returned id made before any
\* other operation on that user answers 200 with a body identical to the
\* creation response: same id, name, email, role, active and timestamps.
C18_GetEqualsCreated ==
    [][\A w \in Workers :
          /\ proc[w].pc = "GetFindByID"
          /\ Answers(w)
          /\ ~last'.fault
          /\ Alone(w)
          /\ C18_JustCreated(proc[w].id)
          => last'.resp = Response(StatusOK, last.resp.body)]_vars

-----------------------------------------------------------------------------
(* SpecLive: service calls, one at a time, each under the time budget of its
   context.  The database may leave a statement unanswered for ever; what is
   certain is that time passes and that a statement whose context is done
   returns with the context's error. *)

TimeoutSeconds == 5
MaxCalls == 3

\* (variant) a context without deadline
Expired_NoDeadline(elapsed) == FALSE

\* ctx, cancel := context.WithTimeout(ctx, 5*time.Second): ctx is done once the
\* budget is used up
Expired(elapsed) == elapsed >= TimeoutSeconds

LiveRequests ==
    { [op |-> "GetAllUsers", id |-> <<>>, body |-> NoBody],
      [op |-> "GetUserByID", id |-> <<"1">>, body |-> NoBody],
      [op |-> "CreateUser", id |-> <<>>,
       body |-> JSONBody(Ptr("Ann"), Ptr("a@x.com"), Ptr("secret1"), Nil, Nil)],
      [op |-> "UpdateUser", id |-> <<"1">>, body |-> NameOnly],
      [op |-> "DeleteUser", id |-> <<"1">>, body |-> NoBody] }

\* The call stands before a database statement.
Pending(l) == l.pc \notin {"idle", "done"}

InitLive ==
    /\ db = EmptyDB
    /\ now = 1
    /\ proc = [w \in Workers |-> Idle]
    /\ last = NoLast
    /\ nreq = 0
    /\ pair = NoPair
    /\ errv = NoErrv
    /\ call = [n |-> 0, d |-> EmptyDB, loc |-> Idle, elapsed |-> 0, expired |-> FALSE]
    /\ mw = NoMw
    /\ items = NoItems
    /\ lg = NoLg
    /\ srv = NoSrv

\* A handler is entered and its service operation starts its budget.
LiveBegin ==
    /\ ~Pending(call.loc)
    /\ call.n < MaxCalls
    /\ \E req \in LiveRequests, hashErr \in BOOLEAN :
           call' = [call EXCEPT !.n = @ + 1, !.loc = StartOf(req, "s1", hashErr),
                                !.elapsed = 0, !.expired = FALSE]
    /\ UNCHANGED <<db, now, proc, last, nreq, pair, errv, mw, items, lg, srv>>

\* A second passes while the statement is unanswered.
LiveSecond ==
    /\ Pending(call.loc)
    /\ call.elapsed < TimeoutSeconds
    /\ call' = [call EXCEPT !.elapsed = @ + 1]
    /\ UNCHANGED <<db, now, proc, last, nreq, pair, errv, mw, items, lg, srv>>

\* The call after its pending statement gave r = [db, loc]
Answered(r, expired) == [call EXCEPT !.d = r.db, !.loc = r.loc, !.expired = expired]

\* The database answers the pending statement within the budget.
LiveAnswer ==
    /\ Pending(call.loc)
    /\ ~Expired(call.elapsed)
    /\ \E fail, hashErr \in BOOLEAN :
           call' = Answered(StepOf(call.d, call.loc, GoTime(call.n, 0), fail, "s1", hashErr),
                            call.expired)
    /\ UNCHANGED <<db, now, proc, last, nreq, pair, errv, mw, items, lg, srv>>

\* The budget is used up: the statement returns with the context's error.
LiveCancel ==
    /\ Pending(call.loc)
    /\ Expired(call.elapsed)
    /\ call' = Answered(StepOf(call.d, call.loc, GoTime(call.n, 0), TRUE, "s1", FALSE), TRUE)
    /\ UNCHANGED <<db, now, proc, last, nreq, pair, errv, mw, items, lg, srv>>

NextLive ==
    \/ LiveBegin
    \/ LiveSecond
    \/ LiveAnswer
    \/ LiveCancel

\* Time passes, and database/sql gives up a statement whose context is done.
\* Nothing obliges the database to answer.
SpecLive ==
    InitLive /\ [][NextLive]_vars /\ WF_vars(LiveSecond) /\ WF_vars(LiveCancel)

\* C19: every service operation terminates: it returns the outcome of its
\* gateway calls or, when a gateway call outlasts the 5-second budget, the call
\* is cancelled and the operation returns a failure; it never hangs.
C19_Terminates ==
    /\ Pending(call.loc) ~> call.loc.pc = "done"
    /\ [](call.loc.pc = "done" /\ call.expired
           => IsError(call.loc.resp, StatusInternalServerError, ErrCodeDatabase))

\* A CreateUser whose lookup was left unanswered for the whole budget returned
\* a failure.
C19_Witness ==
    /\ call.loc.pc = "done"
    /\ call.loc.req.op = "CreateUser"
    /\ call.expired
    /\ call.elapsed = TimeoutSeconds
    /\ IsError(call.loc.resp, StatusInternalServerError, ErrCodeDatabase)

-----------------------------------------------------------------------------
(* SpecPanic: requests, one at a time, pass through the middleware chain to a
   route handler that answers or panics *)

MaxHttp == 3

\* (variant) Recovery registered first, around the logger
Chain_RecoveryOutside == <<"Recovery", "CORS", "RequestLogger">>

\* SetupMiddleware: router.Use in this order; the first is the outermost
Chain == <<"CORS", "RequestLogger", "Recovery">>

\* The statuses the route handlers write
HandlerStatuses ==
    {StatusOK, StatusCreated, StatusNoContent, StatusBadRequest, StatusNotFound,
     StatusConflict, StatusInternalServerError}

\* RequestLogger: the log level for a status
LogLevel(status) ==
    IF status >= 400 /\ status < 500 THEN "warn"
    ELSE IF status >= 500 THEN "error"
    ELSE "info"

\* RequestLogger after c.Next(): one entry with the status of the writer
LogEntry(status) == [status |-> status, level |-> LogLevel(status)]

\* What a middleware does when c.Next() returns to it normally
AfterNext(name, m) ==
    IF name = "RequestLogger" THEN [m EXCEPT !.log = Append(@, LogEntry(m.status))]
    ELSE m

\* What happens in the frame of a middleware when a panic passes through it:
\* gin.Recovery recovers in a deferred function and aborts with status 500
\* (the status stays when the header is already written); the code of any
\* other middleware after c.Next() is skipped.  Recovery is in the chain of
\* every route, so no panic of a handler leaves the engine.
AfterPanic(name, m) ==
    IF name = "Recovery"
    THEN [m EXCEPT !.phase = "up",
                   !.status = IF m.written THEN @ ELSE StatusInternalServerError]
    ELSE m

Pop(frames) == SubSeq(frames, 1, Len(frames) - 1)
Top(frames) == frames[Len(frames)]

InitPanic ==
    /\ db = EmptyDB
    /\ now = 1
    /\ proc = [w \in Workers |-> Idle]
    /\ last = NoLast
    /\ nreq = 0
    /\ pair = NoPair
    /\ errv = NoErrv
    /\ call = NoCall
    /\ mw = [n |-> 0, phase |-> "served", frames |-> <<>>, status |-> StatusOK,
             written |-> FALSE, panicked |-> FALSE, answer |-> StatusOK, log |-> <<>>]
    /\ items = NoItems
    /\ lg = NoLg
    /\ srv = NoSrv

\* net/http hands the next request to the engine.
MwServe ==
    /\ mw.phase = "served"
    /\ mw.n < MaxHttp
    /\ mw' = [mw EXCEPT !.n = @ + 1, !.phase = "down", !.frames = <<>>,
                        !.status = StatusOK, !.written = FALSE, !.panicked = FALSE]
    /\ UNCHANGED <<db, now, proc, last, nreq, pair, errv, call, items, lg, srv>>

\* The next middleware of the chain is entered and calls c.Next().
MwNext ==
    /\ mw.phase = "down"
    /\ Len(mw.frames) < Len(Chain)
    /\ mw' = [mw EXCEPT !.frames = Append(@, Chain[Len(mw.frames) + 1])]
    /\ UNCHANGED <<db, now, proc, last, nreq, pair, errv, call, items, lg, srv>>

\* The route handler writes its response and returns.
MwHandlerReturns ==
    /\ mw.phase = "down"
    /\ Len(mw.frames) = Len(Chain)
    /\ \E status \in HandlerStatuses :
           mw' = [mw EXCEPT !.phase = "up", !.status = status, !.written = TRUE]
    /\ UNCHANGED <<db, now, proc, last, nreq, pair, errv, call, items, lg, srv>>

\* The route handler panics before it has written anything.
MwHandlerPanics ==
    /\ mw.phase = "down"
    /\ Len(mw.frames) = Len(Chain)
    /\ mw' = [mw EXCEPT !.phase = "panic", !.panicked = TRUE]
    /\ UNCHANGED <<db, now, proc, last, nreq, pair, errv, call, items, lg, srv>>

\* c.Next() returns to the innermost middleware still on the stack.
MwReturn ==
    /\ mw.phase = "up"
    /\ mw.frames # <<>>
    /\ mw' = AfterNext(Top(mw.frames), [mw EXCEPT !.frames = Pop(@)])
    /\ UNCHANGED <<db, now, proc, last, nreq, pair, errv, call, items, lg, srv>>

\* The panic reaches the innermost middleware still on the stack.
MwUnwind ==
    /\ mw.phase = "panic"
    /\ mw.frames # <<>>
    /\ mw' = AfterPanic(Top(mw.frames), [mw EXCEPT !.frames = Pop(@)])
    /\ UNCHANGED <<db, now, proc, last, nreq, pair, errv, call, items, lg, srv>>

\* The engine returns to net/http: the response goes out.
MwAnswered ==
    /\ mw.phase = "up"
    /\ mw.frames = <<>>
    /\ mw' = [mw EXCEPT !.phase = "served", !.answer = mw.status]
    /\ UNCHANGED <<db, now, proc, last, nreq, pair, errv, call, items, lg, srv>>

NextPanic ==
    \/ MwServe
    \/ MwNext
    \/ MwHandlerReturns
    \/ MwHandlerPanics
    \/ MwReturn
    \/ MwUnwind
    \/ MwAnswered

SpecPanic == InitPanic /\ [][NextPanic]_vars

-----------------------------------------------------------------------------
(* Properties of Spec about requests that run into each other *)

\* Every worker stands before the insert of a create, all with one email, and
\* the lookup of each completed and found no user of that email.
C22_Racing ==
    /\ \A w \in Workers : proc[w].pc = "CreateInsert" /\ ~proc[w].fault
    /\ \A v, w \in Workers : proc[v].user.Email = proc[w].user.Email

\* C22: two concurrent CreateUser requests with the same email can both pass
\* the FindByEmail check, neither being given DuplicateResource, and then both
\* attempt the insert: a create that stands before its insert, whatever the
\* other has stored meanwhile, issues its INSERT (the id sequence moves on when
\* the statement reaches the table) and is answered by the outcome of that
\* INSERT, 201 or 500 DATABASE_ERROR, never 409.
C22_BothAttemptInsert ==
    [][\A w \in Workers :
          proc[w].pc = "CreateInsert" /\ proc'[w] # proc[w]
          => /\ Answers(w)
             /\ ~last'.fault => db'.seq = db.seq + 1
             /\ \/ last'.resp.status = StatusCreated
                \/ IsError(last'.resp, StatusInternalServerError, ErrCodeDatabase)]_vars

\* Both creates of one email stand before their insert.
C22_Witness ==
    /\ C22_Racing
    /\ \A w \in Workers : proc[w].req.op = "CreateUser"
    /\ Cardinality(Workers) = 2
    /\ db.users = {}

\* Between r and q the field f was left alone.
C26_Kept(f, r, q) ==
    CASE f = "name" -> q.Name = r.Name
      [] f = "email" -> q.Email = r.Email
      [] f = "password" -> q.Password = r.Password
      [] f = "role" -> q.Role = r.Role
      [] f = "active" -> q.Active = r.Active

\* C26: under concurrent UpdateUser requests on one id no update is lost: a
\* field that another update has written since this update loaded the record,
\* and that the input of this update leaves unset, keeps its stored value when
\* this update is persisted, so that two updates of disjoint fields both show
\* in the final record.
C26_NoLostUpdate ==
    [][\A w \in Workers :
          /\ proc[w].pc = "UpdateSave"
          /\ Answers(w)
          /\ last'.resp.status = StatusOK
          => \A r \in RowsOf(db, proc[w].id) \cap Live(db), q \in RowsOf(db', proc[w].id) :
                 \A f \in {"name", "email", "password", "role", "active"} :
                     proc[w].req.body[f] = Nil /\ ~C26_Kept(f, proc[w].loaded, r)
                     => C26_Kept(f, r, q)]_vars

\* C27: when a concurrent DeleteUser deletes the user after UpdateUser loaded
\* it and before UpdateUser persists it, the Update statement matches no row,
\* UpdateUser answers 404 RESOURCE_NOT_FOUND and the user stays deleted: no row
\* is re-created and no deletion marker is cleared.
C27_UpdateOfDeleted ==
    [][\A w \in Workers :
          /\ proc[w].pc = "UpdateSave"
          /\ Answers(w)
          /\ ~last'.fault
          /\ C7_Deleted(proc[w].id)
          => /\ IsError(last'.resp, StatusNotFound, ErrCodeResourceNotFound)
             /\ db' = db]_vars

\* C28: after a user with email e has been deleted, a CreateUser with e whose
\* statements complete succeeds with 201 and a new user of a different
\* identifier.
C28_CreateAfterDelete ==
    [][\A w \in Workers :
          /\ proc[w].pc = "CreateInsert"
          /\ Answers(w)
          /\ ~last'.fault
          /\ ~\E r \in Live(db) : r.Email = proc[w].user.Email
          /\ \E r \in db.users : r.Email = proc[w].user.Email /\ r.DeletedAt # Nil
          => /\ last'.resp.status = StatusCreated
             /\ last'.resp.body.id \notin IDs(db.users)
             /\ \E r \in Live(db') : r.Email = proc[w].user.Email]_vars

\* Worker w runs the lookup of Create in this step.
C29_Step(w) ==
    /\ proc[w].pc = "CreateFindByEmail"
    /\ proc'[w] # proc[w]

\* C29: Create returns DuplicateResource only when the FindByEmail lookup
\* completes and returns a record; when the lookup ends in an error, NotFound
\* or a Database error alike, Create drops the error and goes on to the insert.
C29_LookupErrorIgnored ==
    [][\A w \in Workers :
          C29_Step(w)
          => \/ /\ Answers(w)
                /\ ~last'.fault
                /\ \E r \in Live(db) : r.Email = proc[w].user.Email
                /\ IsError(last'.resp, StatusConflict, ErrCodeDuplicateResource)
                /\ db' = db
             \/ /\ proc'[w].pc = "CreateInsert"
                /\ proc'[w].user = proc[w].user
                /\ \/ proc'[w].fault
                   \/ ~\E r \in Live(db) : r.Email = proc[w].user.Email]_vars

\* A create stands before its insert although a user holds its email: its
\* lookup failed in the driver.
C29_Witness ==
    \E w \in Workers :
        /\ proc[w].pc = "CreateInsert"
        /\ proc[w].fault
        /\ \E r \in Live(db) : r.Email = proc[w].user.Email

-----------------------------------------------------------------------------
(* SpecItems: the item handlers, each of them one database statement, served
   one request at a time on the items table *)

MaxItemReq == 3

\* models.Item (Description is left at its zero value throughout)
ZeroItem ==
    [ID |-> 0, Name |-> "", Price |-> 0, Description |-> "",
     CreatedAt |-> 0, UpdatedAt |-> 0]

\* A JSON body for models.Item: a key that is absent is Nil
ItemBody(id, name, price) ==
    [malformed |-> FALSE, id |-> id, name |-> name, price |-> price]

ItemBodies ==
    { [malformed |-> TRUE, id |-> Nil, name |-> Nil, price |-> Nil],
      ItemBody(Nil, Ptr("Pen"), Ptr(2)),
      ItemBody(Nil, Ptr("Ink"), Nil),
      ItemBody(Nil, Ptr(""), Ptr(3)),
      ItemBody(Nil, Nil, Ptr(3)),
      ItemBody(Ptr(1), Ptr("Cup"), Nil) }

ItemIDParams == {<<"1">>, <<"2">>, <<"0">>, <<"x">>}

\* strconv.Atoi on a path parameter without sign: [err, n]
Atoi(s) ==
    IF s = <<>> \/ \E i \in 1..Len(s) : ~IsDigit(s[i])
    THEN [err |-> TRUE, n |-> 0]
    ELSE [err |-> FALSE, n |-> DecimalValue(s)]

\* c.ShouldBindJSON(&item): models.Item carries no binding tag, so only a
\* body that is not JSON fails; an absent key leaves the zero value.
BindItem(body) ==
    [err |-> body.malformed,
     item |-> [ZeroItem EXCEPT !.ID = IF body.id = Nil THEN 0 ELSE Deref(body.id),
                               !.Name = StrOrZero(body.name),
                               !.Price = IF body.price = Nil THEN 0 ELSE Deref(body.price)]]

\* gin.H{"error": ...}
ErrorJSON(message) == [error |-> message]

\* What a handler leaves: the table, its AUTO_INCREMENT counter, the response
Handled(rows, seq, resp) == [rows |-> rows, seq |-> seq, resp |-> resp]

DatabaseErrorItems(st) ==
    Handled(st.rows, st.seq, Response(StatusInternalServerError, ErrorJSON("Database error")))
InvalidIDItems(st) ==
    Handled(st.rows, st.seq, Response(StatusBadRequest, ErrorJSON("Invalid ID")))
BindErrorItems(st) ==
    Handled(st.rows, st.seq, Response(StatusBadRequest, ErrorJSON("invalid character")))

GetItems(st, fail) ==
    IF fail THEN DatabaseErrorItems(st)
    ELSE Handled(st.rows, st.seq, Response(StatusOK, [items |-> st.rows]))

GetItemByID(st, idParam, fail) ==
    LET id == Atoi(idParam)
    IN  IF id.err THEN InvalidIDItems(st)
        ELSE IF fail THEN DatabaseErrorItems(st)
        ELSE IF ~\E r \in st.rows : r.ID = id.n
        THEN Handled(st.rows, st.seq, Response(StatusNotFound, ErrorJSON("Item not found")))
        ELSE Handled(st.rows, st.seq,
                     Response(StatusOK, CHOOSE r \in st.rows : r.ID = id.n))

\* db.Create(&newItem): a zero ID takes the next counter value, a non-zero ID
\* is inserted as given (a primary key in use is refused) and the counter
\* moves past it.
CreateItem(st, body, t, fail) ==
    LET b == BindItem(body)
        row == [b.item EXCEPT !.ID = IF b.item.ID = 0 THEN st.seq ELSE b.item.ID,
                              !.CreatedAt = t, !.UpdatedAt = t]
    IN  IF b.err THEN BindErrorItems(st)
        ELSE IF fail \/ \E r \in st.rows : r.ID = row.ID THEN DatabaseErrorItems(st)
        ELSE Handled(st.rows \cup {row},
                     IF row.ID >= st.seq THEN row.ID + 1 ELSE st.seq,
                     Response(StatusCreated, row))

\* (variant) UpdateItem answering 404 when no row was updated
UpdateItem_NotFound(st, idParam, body, t, fail) ==
    Handled(st.rows, st.seq, Response(StatusNotFound, ErrorJSON("Item not found")))

\* db.Model(&item).Updates(item): UPDATE items SET the non-zero fields and
\* updated_at WHERE id = item.ID; with a zero ID there is no WHERE clause and
\* GORM refuses the statement (ErrMissingWhereClause).
UpdateItem(st, idParam, body, t, fail) ==
    LET id == Atoi(idParam)
        b == BindItem(body)
        item == [b.item EXCEPT !.ID = id.n, !.UpdatedAt = t]
    IN  IF id.err THEN InvalidIDItems(st)
        ELSE IF b.err THEN BindErrorItems(st)
        ELSE IF fail \/ id.n = 0 THEN DatabaseErrorItems(st)
        ELSE Handled({ IF r.ID # id.n THEN r
                       ELSE [r EXCEPT !.Name = IF item.Name = "" THEN @ ELSE item.Name,
                                      !.Price = IF item.Price = 0 THEN @ ELSE item.Price,
                                      !.UpdatedAt = t] : r \in st.rows },
                     st.seq, Response(StatusOK, item))

\* db.Delete(&models.Item{}, id): DELETE FROM items WHERE id = ?
DeleteItem(st, idParam, fail) ==
    LET id == Atoi(idParam)
    IN  IF id.err THEN InvalidIDItems(st)
        ELSE IF fail THEN DatabaseErrorItems(st)
        ELSE Handled({ r \in st.rows : r.ID # id.n }, st.seq,
                     Response(StatusOK, [deleted |-> id.n]))

ItemReq(op, idParam, body) == [op |-> op, id |-> idParam, body |-> body]

\* The state after request req was handled with outcome h; gone collects the
\* ids of the rows removed so far.
ItemsAfter(req, h, fail) ==
    [rows |-> h.rows, seq |-> h.seq, n |-> items.n + 1, req |-> req, resp |-> h.resp,
     fault |-> fail, gone |-> items.gone \cup (IDs(items.rows) \ IDs(h.rows))]

InitItems ==
    /\ db = EmptyDB
    /\ now = 1
    /\ proc = [w \in Workers |-> Idle]
    /\ last = NoLast
    /\ nreq = 0
    /\ pair = NoPair
    /\ errv = NoErrv
    /\ call = NoCall
    /\ mw = NoMw
    /\ items = [rows |-> {}, seq |-> 1, n |-> 0, req |-> ItemReq("none", <<>>, Nil),
                resp |-> NoResp, fault |-> FALSE, gone |-> {}]
    /\ lg = NoLg
    /\ srv = NoSrv

ServeGetItems ==
    /\ items.n < MaxItemReq
    /\ \E fail \in BOOLEAN :
           items' = ItemsAfter(ItemReq("GetItems", <<>>, Nil), GetItems(items, fail), fail)
    /\ UNCHANGED <<db, now, proc, last, nreq, pair, errv, call, mw, lg, srv>>

ServeGetItemByID ==
    /\ items.n < MaxItemReq
    /\ \E idParam \in ItemIDParams, fail \in BOOLEAN :
           items' = ItemsAfter(ItemReq("GetItemByID", idParam, Nil),
                               GetItemByID(items, idParam, fail), fail)
    /\ UNCHANGED <<db, now, proc, last, nreq, pair, errv, call, mw, lg, srv>>

ServeCreateItem ==
    /\ items.n < MaxItemReq
    /\ \E body \in ItemBodies, fail \in BOOLEAN :
           items' = ItemsAfter(ItemReq("CreateItem", <<>>, body),
                               CreateItem(items, body, GoTime(items.n + 1, 0), fail), fail)
    /\ UNCHANGED <<db, now, proc, last, nreq, pair, errv, call, mw, lg, srv>>

ServeUpdateItem ==
    /\ items.n < MaxItemReq
    /\ \E idParam \in ItemIDParams, body \in ItemBodies, fail \in BOOLEAN :
           items' = ItemsAfter(ItemReq("UpdateItem", idParam, body),
                               UpdateItem(items, idParam, body, GoTime(items.n + 1, 0), fail),
                               fail)
    /\ UNCHANGED <<db, now, proc, last, nreq, pair, errv, call, mw, lg, srv>>

ServeDeleteItem ==
    /\ items.n < MaxItemReq
    /\ \E idParam \in ItemIDParams, fail \in BOOLEAN :
           items' = ItemsAfter(ItemReq("DeleteItem", idParam, Nil),
                               DeleteItem(items, idParam, fail), fail)
    /\ UNCHANGED <<db, now, proc, last, nreq, pair, errv, call, mw, lg, srv>>

NextItems ==
    \/ ServeGetItems
    \/ ServeGetItemByID
    \/ ServeCreateItem
    \/ ServeUpdateItem
    \/ ServeDeleteItem

SpecItems == InitItems /\ [][NextItems]_vars

\* C23: every stored item has a non-empty name: POST /items and PUT /items/{id}
\* reject a payload whose name is missing or empty and store nothing.
C23_ItemNamesNonEmpty ==
    /\ \A r \in items.rows : r.Name # ""
    /\ /\ items.req.op \in {"CreateItem", "UpdateItem"}
       /\ items.req.body.name \in {Nil, Ptr("")}
       => items.resp.status = StatusBadRequest

\* The step serves DELETE /items/{id} for a stored id and the statement
\* completes.
C24_Deletes(id) ==
    /\ items'.req = ItemReq("DeleteItem", <<DigitChars[id + 1]>>, Nil)
    /\ ~items'.fault
    /\ id \in IDs(items.rows)

\* C24: DELETE /items/{id} of an existing item answers 200 and removes the
\* row; afterwards GET /items/{id} answers 404 "Item not found" and the item is
\* absent from GET /items, until an item is created again, and an item created
\* again receives a different id.
C24_HardDelete ==
    [][/\ \A id \in 1..9 :
              C24_Deletes(id)
              => /\ items'.resp = Response(StatusOK, [deleted |-> id])
                 /\ id \notin IDs(items'.rows)
       /\ \A id \in items.gone \ IDs(items.rows) :
              /\ GetItemByID(items, <<DigitChars[id + 1]>>, FALSE).resp
                     = Response(StatusNotFound, ErrorJSON("Item not found"))
              /\ \A r \in GetItems(items, FALSE).resp.body.items : r.ID # id
       /\ items'.req.op # "CreateItem" => IDs(items'.rows) \subseteq IDs(items.rows)
       /\ IDs(items'.rows) \cap items.gone = {}]_vars

\* The step serves a well-formed PUT or a DELETE for an id no item has.
C30_Step ==
    /\ items'.n = items.n + 1
    /\ \/ items'.req.op = "UpdateItem" /\ ~items'.req.body.malformed
       \/ items'.req.op = "DeleteItem"
    /\ ~Atoi(items'.req.id).err
    /\ Atoi(items'.req.id).n \notin IDs(items.rows)

\* C30 as stated: for an id that matches no item, PUT /items/{id} and
\* DELETE /items/{id} never create or change a row, and both answer 200.
C30_Original ==
    [][C30_Step => items'.rows = items.rows /\ items'.resp.status = StatusOK]_vars

\* C30, amended: they never create or change a row, and both answer 200
\* whenever the statement runs; the answer is 500 "Database error" when the
\* statement fails in the driver and for PUT /items/0, whose UPDATE has no
\* WHERE clause and is refused.
C30_Amended ==
    [][C30_Step
       => /\ items'.rows = items.rows
          /\ IF items'.fault \/ (items'.req.op = "UpdateItem" /\ Atoi(items'.req.id).n = 0)
             THEN items'.resp = Response(StatusInternalServerError, ErrorJSON("Database error"))
             ELSE items'.resp.status = StatusOK]_vars

\* PUT /items/2 was answered 200 while item 1 is the only item.
C30_Witness ==
    /\ items.req.op = "UpdateItem"
    /\ items.req.id = <<"2">>
    /\ ~items.fault
    /\ items.resp.status = StatusOK
    /\ IDs(items.rows) = {1}

-----------------------------------------------------------------------------
(* SpecLog: requests, one at a time, pass the CORS middleware and the request
   logger, which writes to a logger of a configured level.  Paths and content
   types are sequences of characters, bodies are known by their length. *)

MaxLogReq == 2

maxBodySize == 10240

SlashUsers == <<"/", "u", "s", "e", "r", "s">>
SlashAuth == <<"/", "a", "u", "t", "h">>
SlashLogin == <<"/", "l", "o", "g", "i", "n">>
SlashRegister == <<"/", "r", "e", "g", "i", "s", "t", "e", "r">>
SlashPassword == <<"/", "p", "a", "s", "s", "w", "o", "r", "d">>
SlashProfile == <<"/", "p", "r", "o", "f", "i", "l", "e">>
SlashHealth == <<"/", "h", "e", "a", "l", "t", "h">>
ApiV1 == <<"/", "a", "p", "i", "/", "v", "1">>
ApplicationJson ==
    <<"a", "p", "p", "l", "i", "c", "a", "t", "i", "o", "n", "/", "j", "s", "o", "n">>
ImagePng == <<"i", "m", "a", "g", "e", "/", "p", "n", "g">>

\* bytes.Contains(s, p)
Contains(s, p) ==
    \E i \in 0..(Len(s) - Len(p)) : SubSeq(s, i + 1, i + Len(p)) = p

\* (variant) isRequestSensitive without the entry "/users"
isRequestSensitive_NoUsers(path) ==
    \E p \in {SlashLogin, SlashRegister, SlashAuth, SlashPassword} : Contains(path, p)

isRequestSensitive(path) ==
    \E p \in {SlashLogin, SlashRegister, SlashUsers, SlashAuth, SlashPassword} :
        Contains(path, p)

isResponseSensitive(path) ==
    \E p \in {SlashUsers, SlashProfile, SlashAuth} : Contains(path, p)

isMediaContentType(contentType) ==
    \E media \in { <<"i", "m", "a", "g", "e", "/">>,
                   <<"v", "i", "d", "e", "o", "/">>,
                   <<"a", "u", "d", "i", "o", "/">>,
                   <<"a", "p", "p", "l", "i", "c", "a", "t", "i", "o", "n", "/", "p", "d", "f">>,
                   <<"a", "p", "p", "l", "i", "c", "a", "t", "i", "o", "n", "/", "z", "i", "p">>,
                   <<"a", "p", "p", "l", "i", "c", "a", "t", "i", "o", "n", "/",
                     "o", "c", "t", "e", "t", "-", "s", "t", "r", "e", "a", "m">> } :
        Contains(contentType, media)

\* truncateBody: what is logged of a body of len bytes
truncateBody(len) ==
    IF len > maxBodySize THEN [len |-> maxBodySize, truncated |-> TRUE]
    ELSE [len |-> len, truncated |-> FALSE]

\* RequestLogger after c.Next(): the level and the fields of the entry
RequestLogger(req, status, responseLen) ==
    LET shouldLogBody == ~isMediaContentType(req.contentType)
    IN  [level |-> LogLevel(status),
         path |-> req.path,
         status |-> status,
         request_body |->
             IF shouldLogBody /\ req.len > 0 /\ ~isRequestSensitive(req.path)
             THEN Ptr(truncateBody(req.len)) ELSE Nil,
         response_body |->
             IF shouldLogBody /\ responseLen > 0 /\ ~isResponseSensitive(req.path)
             THEN Ptr(truncateBody(responseLen)) ELSE Nil]

\* zapcore.Level of a level name (debug -1, info 0, warn 1, error 2)
LevelOf(name) ==
    CASE name = "debug" -> 0 - 1
      [] name = "info" -> 0
      [] name = "warn" -> 1
      [] name = "error" -> 2

\* logger.Initialize(level): a name that does not parse means info
Initialize(level) ==
    IF level \in {"debug", "info", "warn", "error"} THEN LevelOf(level) ELSE LevelOf("info")

\* zap's Logger.Log writes an entry when the core's level admits its level
Enabled(configured, level) == LevelOf(level) >= configured

LogPaths ==
    { ApiV1 \o SlashUsers, ApiV1 \o SlashUsers \o <<"/", "1">>, SlashHealth,
      ApiV1, SlashLogin, SlashRegister, SlashAuth \o SlashPassword,
      SlashProfile }

ContentTypes == { <<>>, ApplicationJson, ImagePng }

BodyLens == { 0, 20, maxBodySize + 1 }

LogLevels == { "debug", "info", "warn", "error", "verbose" }

InitLog ==
    /\ db = EmptyDB
    /\ now = 1
    /\ proc = [w \in Workers |-> Idle]
    /\ last = NoLast
    /\ nreq = 0
    /\ pair = NoPair
    /\ errv = NoErrv
    /\ call = NoCall
    /\ mw = NoMw
    /\ items = NoItems
    /\ \E level \in LogLevels :
           lg = [n |-> 0, pc |-> "idle", configured |-> Initialize(level),
                 req |-> [path |-> <<>>, contentType |-> <<>>, len |-> 0, preflight |-> FALSE],
                 status |-> 0, responseLen |-> 0, out |-> <<>>]
    /\ srv = NoSrv

\* A request arrives; out collects the entries the request logger writes for it
LogArrive ==
    /\ lg.pc = "idle"
    /\ lg.n < MaxLogReq
    /\ \E path \in LogPaths, contentType \in ContentTypes, len \in BodyLens,
          preflight \in BOOLEAN :
           lg' = [lg EXCEPT !.n = @ + 1, !.pc = "CORS",
                            !.req = [path |-> path, contentType |-> contentType,
                                     len |-> IF preflight THEN 0 ELSE len,
                                     preflight |-> preflight],
                            !.status = 0, !.responseLen = 0, !.out = <<>>]
    /\ UNCHANGED <<db, now, proc, last, nreq, pair, errv, call, mw, items, srv>>

\* cors.New: a preflight request (OPTIONS with the Origin of another host) is
\* answered 204 and aborted, so no later middleware runs
LogPreflight ==
    /\ lg.pc = "CORS"
    /\ lg.req.preflight
    /\ lg' = [lg EXCEPT !.pc = "idle", !.status = StatusNoContent]
    /\ UNCHANGED <<db, now, proc, last, nreq, pair, errv, call, mw, items, srv>>

\* RequestLogger up to c.Next(): the body is read, the writer is wrapped
LogNext ==
    /\ lg.pc = "CORS"
    /\ ~lg.req.preflight
    /\ lg' = [lg EXCEPT !.pc = "handler"]
    /\ UNCHANGED <<db, now, proc, last, nreq, pair, errv, call, mw, items, srv>>

\* c.Next() returns: the handler (or gin.Recovery after a panic) has written
\* a status and a body through the wrapped writer
LogHandled ==
    /\ lg.pc = "handler"
    /\ \E status \in {StatusOK, StatusNotFound, StatusInternalServerError},
          responseLen \in BodyLens :
           lg' = [lg EXCEPT !.pc = "after", !.status = status, !.responseLen = responseLen]
    /\ UNCHANGED <<db, now, proc, last, nreq, pair, errv, call, mw, items, srv>>

\* RequestLogger after c.Next(): logger.GetLogger().Log(logLevel, ...)
LogEmit ==
    /\ lg.pc = "after"
    /\ lg' = [lg EXCEPT !.pc = "idle",
                        !.out = IF Enabled(lg.configured, LogLevel(lg.status))
                                THEN Append(@, RequestLogger(lg.req, lg.status, lg.responseLen))
                                ELSE @]
    /\ UNCHANGED <<db, now, proc, last, nreq, pair, errv, call, mw, items, srv>>

NextLog ==
    \/ LogArrive
    \/ LogPreflight
    \/ LogNext
    \/ LogHandled
    \/ LogEmit

SpecLog == InitLog /\ [][NextLog]_vars

\* A request has been answered
C25_Finished == lg.pc = "idle" /\ lg.n > 0

\* No entry before the handler has finished; no entry holds the request body
\* for a path containing /login, /register, /users, /auth or /password, nor
\* the response body for a path containing /users, /profile or /auth; an
\* entry for a path under /api/v1/users holds no body at all.
C25_Bodies ==
    /\ lg.pc \in {"CORS", "handler", "after"} => lg.out = <<>>
    /\ \A i \in 1..Len(lg.out) :
           LET e == lg.out[i]
           IN  /\ e.path = lg.req.path /\ e.status = lg.status
               /\ (\E p \in {SlashLogin, SlashRegister, SlashUsers, SlashAuth, SlashPassword} :
                       Contains(e.path, p))
                  => e.request_body = Nil
               /\ (\E p \in {SlashUsers, SlashProfile, SlashAuth} : Contains(e.path, p))
                  => e.response_body = Nil
               /\ Contains(e.path, ApiV1 \o SlashUsers)
                  => e.request_body = Nil /\ e.response_body = Nil

\* C25 as stated: the request logger emits exactly one log entry per request,
\* after the handler has finished, and never includes the request body for a
\* path containing /login, /register, /users, /auth or /password, nor the
\* response body for a path containing /users, /profile or /auth, so no body
\* of a /api/v1/users request is ever logged.
C25_Original ==
    /\ C25_Finished => Len(lg.out) = 1
    /\ C25_Bodies

\* C25, amended: at most one entry per request, after the handler has finished:
\* exactly one when the request reaches the logger (it is no preflight request,
\* which the CORS middleware answers before) and the configured log level
\* admits the entry's level (info below 400, warn for 4xx, error from 500),
\* none otherwise; the entry never includes the bodies named above.
C25_Amended ==
    /\ C25_Finished
       => Len(lg.out) = IF ~lg.req.preflight
                           /\ lg.configured <= (IF lg.status >= 500 THEN 2
                                                ELSE IF lg.status >= 400 THEN 1 ELSE 0)
                        THEN 1 ELSE 0
    /\ C25_Bodies

\* A request to /api/v1/users/1 with a JSON body that was answered with a body
\* has its one entry.
C25_Witness ==
    /\ C25_Finished
    /\ lg.req.path = ApiV1 \o SlashUsers \o <<"/", "1">>
    /\ lg.req.contentType = ApplicationJson
    /\ lg.req.len > 0
    /\ lg.responseLen > 0
    /\ Len(lg.out) = 1

-----------------------------------------------------------------------------
(* SpecStop: the life of the server process from the call of Server.Start:
   the goroutine that listens, the requests in flight, the signals sent to
   the process, and the seconds of the shutdown's grace period *)

MaxInflight == 2

MaxSignals == 2

\* context.WithTimeout(context.Background(), 10*time.Second)
GraceSeconds == 10

\* The process runs: Start has not returned and nothing has ended the process
Running == srv.pc \in {"start", "spawned", "waiting", "quit", "shutdown"}

\* (variant) Shutdown returning nil without waiting for the requests in flight
Shutdown_NoWait(inflight, elapsed) == "nil"

\* srv.Shutdown(ctx), called with the listeners closed: nil once no request is
\* in flight, the context's error once the deadline has passed, and until
\* then it waits
Shutdown(inflight, elapsed) ==
    IF elapsed >= GraceSeconds THEN "deadline"
    ELSE IF inflight = 0 THEN "nil"
    ELSE "wait"

InitStop ==
    /\ db = EmptyDB
    /\ now = 1
    /\ proc = [w \in Workers |-> Idle]
    /\ last = NoLast
    /\ nreq = 0
    /\ pair = NoPair
    /\ errv = NoErrv
    /\ call = NoCall
    /\ mw = NoMw
    /\ items = NoItems
    /\ lg = NoLg
    /\ srv = [pc |-> "start", listening |-> "no", inflight |-> 0, signals |-> 0,
              quit |-> 0, elapsed |-> 0, result |-> "none"]

\* Start: go func() { ... srv.ListenAndServe() ... }()
StartGo ==
    /\ srv.pc = "start"
    /\ srv' = [srv EXCEPT !.pc = "spawned"]
    /\ UNCHANGED <<db, now, proc, last, nreq, pair, errv, call, mw, items, lg>>

\* Start: quit := make(chan os.Signal, 1); signal.Notify(quit, SIGINT, SIGTERM)
StartNotify ==
    /\ srv.pc = "spawned"
    /\ srv' = [srv EXCEPT !.pc = "waiting"]
    /\ UNCHANGED <<db, now, proc, last, nreq, pair, errv, call, mw, items, lg>>

\* The goroutine: ListenAndServe binds the port and serves
ListenAndServe ==
    /\ srv.pc \in {"spawned", "waiting", "quit"}
    /\ srv.listening = "no"
    /\ srv' = [srv EXCEPT !.listening = "yes"]
    /\ UNCHANGED <<db, now, proc, last, nreq, pair, errv, call, mw, items, lg>>

\* The goroutine: ListenAndServe fails (the port is taken) and logger.Fatal
\* ends the process
ListenFails ==
    /\ srv.pc \in {"spawned", "waiting", "quit"}
    /\ srv.listening = "no"
    /\ srv' = [srv EXCEPT !.listening = "failed", !.pc = "failed"]
    /\ UNCHANGED <<db, now, proc, last, nreq, pair, errv, call, mw, items, lg>>

\* A connection is accepted and its request is in flight
Accept ==
    /\ Running
    /\ srv.listening = "yes"
    /\ srv.inflight < MaxInflight
    /\ srv' = [srv EXCEPT !.inflight = @ + 1]
    /\ UNCHANGED <<db, now, proc, last, nreq, pair, errv, call, mw, items, lg>>

\* A request in flight completes
Complete ==
    /\ Running
    /\ srv.inflight > 0
    /\ srv' = [srv EXCEPT !.inflight = @ - 1]
    /\ UNCHANGED <<db, now, proc, last, nreq, pair, errv, call, mw, items, lg>>

\* SIGINT or SIGTERM before signal.Notify: the Go runtime's default action
\* ends the process
SignalKills ==
    /\ srv.pc \in {"start", "spawned"}
    /\ srv.signals < MaxSignals
    /\ srv' = [srv EXCEPT !.signals = @ + 1, !.pc = "killed"]
    /\ UNCHANGED <<db, now, proc, last, nreq, pair, errv, call, mw, items, lg>>

\* SIGINT or SIGTERM after signal.Notify: sent to quit without blocking, so
\* it is dropped when the channel's one slot is taken
SignalNotified ==
    /\ srv.pc \in {"waiting", "quit", "shutdown"}
    /\ srv.signals < MaxSignals
    /\ srv' = [srv EXCEPT !.signals = @ + 1, !.quit = 1]
    /\ UNCHANGED <<db, now, proc, last, nreq, pair, errv, call, mw, items, lg>>

\* Start: <-quit
StartQuit ==
    /\ srv.pc = "waiting"
    /\ srv.quit = 1
    /\ srv' = [srv EXCEPT !.pc = "quit", !.quit = 0]
    /\ UNCHANGED <<db, now, proc, last, nreq, pair, errv, call, mw, items, lg>>

\* Start: srv.Shutdown(ctx) begins: the listeners are closed (a ListenAndServe
\* not yet listening returns ErrServerClosed) and the grace period starts
ShutdownBegins ==
    /\ srv.pc = "quit"
    /\ srv' = [srv EXCEPT !.pc = "shutdown", !.listening = "closed", !.elapsed = 0]
    /\ UNCHANGED <<db, now, proc, last, nreq, pair, errv, call, mw, items, lg>>

\* A second of the grace period passes while Shutdown waits
StopSecond ==
    /\ srv.pc = "shutdown"
    /\ Shutdown(srv.inflight, srv.elapsed) = "wait"
    /\ srv' = [srv EXCEPT !.elapsed = @ + 1]
    /\ UNCHANGED <<db, now, proc, last, nreq, pair, errv, call, mw, items, lg>>

\* Start: Shutdown returned nil; "Server exited gracefully"; return nil
StartReturns ==
    /\ srv.pc = "shutdown"
    /\ Shutdown(srv.inflight, srv.elapsed) = "nil"
    /\ srv' = [srv EXCEPT !.pc = "returned", !.result = "nil"]
    /\ UNCHANGED <<db, now, proc, last, nreq, pair, errv, call, mw, items, lg>>

\* Start: Shutdown returned the context's error; logger.Fatal ends the process
StartForced ==
    /\ srv.pc = "shutdown"
    /\ Shutdown(srv.inflight, srv.elapsed) = "deadline"
    /\ srv' = [srv EXCEPT !.pc = "forced"]
    /\ UNCHANGED <<db, now, proc, last, nreq, pair, errv, call, mw, items, lg>>

\* The steps of the goroutine that runs Start
StartStep ==
    \/ StartGo
    \/ StartNotify
    \/ StartQuit
    \/ ShutdownBegins
    \/ StartReturns
    \/ StartForced

NextStop ==
    \/ StartGo
    \/ StartNotify
    \/ ListenAndServe
    \/ ListenFails
    \/ Accept
    \/ Complete
    \/ SignalKills
    \/ SignalNotified
    \/ StartQuit
    \/ ShutdownBegins
    \/ StopSecond
    \/ StartReturns
    \/ StartForced

\* The goroutine running Start is scheduled whenever it can run, and time
\* passes.
SpecStop ==
    InitStop /\ [][NextStop]_vars /\ WF_vars(StartStep) /\ WF_vars(StopSecond)

\* Once the shutdown has begun no connection is accepted; Start returns only
\* after a signal, with nil, with no request in flight and within the grace
\* period; the process is forced to end only when the grace period is over,
\* and the grace period ends only with a request still in flight.
C21_Graceful ==
    /\ [](srv.pc \in {"shutdown", "returned", "forced"} => srv.listening # "yes")
    /\ [][srv.pc = "shutdown" => srv'.inflight <= srv.inflight]_vars
    /\ [](srv.pc = "returned"
            => /\ srv.signals > 0
               /\ srv.result = "nil"
               /\ srv.inflight = 0
               /\ srv.elapsed < GraceSeconds)
    /\ [](srv.pc = "forced" => srv.elapsed = GraceSeconds)
    /\ [][srv'.elapsed > srv.elapsed => srv.inflight > 0 /\ srv'.elapsed <= GraceSeconds]_vars

\* C21 as stated: after SIGINT or SIGTERM the server stops accepting new
\* connections, lets the requests in flight complete for at most the 10-second
\* grace period, and then Start ends: it returns nil if they all finished in
\* time, otherwise the process is force-terminated; Start never returns before
\* a shutdown signal arrives.  (Stated for a process whose server has come to
\* listen.)
C21_Original ==
    /\ C21_Graceful
    /\ (srv.signals > 0 /\ srv.listening \in {"yes", "closed"})
           ~> (srv.pc \in {"returned", "forced"})

\* C21, amended: the same for a signal that arrives once Start has registered
\* for signals, unless the process has ended before because listening failed;
\* a signal that arrives earlier, before signal.Notify, ends the process at
\* once.
C21_Amended ==
    /\ C21_Graceful
    /\ (srv.quit = 1) ~> (srv.pc \in {"returned", "forced", "failed"})
    /\ [][srv'.signals > srv.signals /\ srv.pc \in {"start", "spawned"}
          => srv'.pc = "killed"]_vars
    /\ [](srv.pc = "killed" => srv.result = "none")

\* Start has returned nil after a shutdown in which requests were in flight
\* for some seconds.
C21_Witness ==
    /\ srv.pc = "returned"
    /\ srv.result = "nil"
    /\ srv.elapsed > 0
    /\ srv.signals > 0

\* The process was forced to end with a request in flight when the grace
\* period was over.
C21_WitnessForced ==
    /\ srv.pc = "forced"
    /\ srv.inflight > 0
    /\ srv.elapsed = GraceSeconds

====
